---------------------------- MODULE Spec2Model ----------------------------
(***************************************************************************)
(* A model of Velox (velox/obj.py, velox/filesystem.py, velox/tools.py):   *)
(* the registration table, the versioned save/load of managed objects and  *)
(* the hot-swap reload of a live object.                                   *)
(*                                                                         *)
(* Python strings are modelled as sequences of one-character strings, so   *)
(* that format, split, replace, startswith, glob matching and sorting are  *)
(* computed the way the code computes them.  An optional value (None or a  *)
(* value) is a sequence of length 0 or 1.                                  *)
(***************************************************************************)
EXTENDS Naturals, Sequences, FiniteSets, TLC

(***************************************************************************)
(* Bounds of the model.                                                    *)
(***************************************************************************)
MaxTable == 3
MaxClock == 1
MaxSaves == 2
MaxLoaders == 1
MaxInFlight == 2
MaxClasses == 3
MaxStored == 2
MaxTemps == 1

(***************************************************************************)
(* Optional values.                                                        *)
(***************************************************************************)
None == << >>
Some(x) == << x >>
IsNone(o) == Len(o) = 0
Get(o) == o[1]

(***************************************************************************)
(* Python str operations on sequences of characters.                       *)
(***************************************************************************)
RECURSIVE FlattenSeq(_)
FlattenSeq(ss) == IF ss = << >> THEN << >> ELSE Head(ss) \o FlattenSeq(Tail(ss))

startswith(s, p) == Len(s) >= Len(p) /\ SubSeq(s, 1, Len(p)) = p

endswith(s, p) == Len(s) >= Len(p) /\ SubSeq(s, Len(s) - Len(p) + 1, Len(s)) = p

\* s.split(sep) for a one-character separator: the pieces between separators.
RECURSIVE SplitFrom(_, _, _)
SplitFrom(s, sep, cur) ==
    IF s = << >> THEN << cur >>
    ELSE IF Head(s) = sep THEN << cur >> \o SplitFrom(Tail(s), sep, << >>)
    ELSE SplitFrom(Tail(s), sep, Append(cur, Head(s)))

split(s, sep) == SplitFrom(s, sep, << >>)

\* sep.join(parts)
RECURSIVE join(_, _)
join(sep, parts) ==
    IF parts = << >> THEN << >>
    ELSE IF Len(parts) = 1 THEN parts[1]
    ELSE parts[1] \o sep \o join(sep, Tail(parts))

\* s.replace(old, new): every non-overlapping occurrence, left to right.
RECURSIVE replace(_, _, _)
replace(s, old, new) ==
    IF s = << >> \/ old = << >> THEN s
    ELSE IF startswith(s, old)
         THEN new \o replace(SubSeq(s, Len(old) + 1, Len(s)), old, new)
         ELSE << Head(s) >> \o replace(Tail(s), old, new)

\* fnmatch.fnmatch(name, pat) for patterns whose only wildcard is '*'.
RECURSIVE fnmatch(_, _)
fnmatch(name, pat) ==
    IF pat = << >> THEN name = << >>
    ELSE IF Head(pat) = "*"
         THEN fnmatch(name, Tail(pat))
              \/ (name # << >> /\ fnmatch(Tail(name), pat))
         ELSE name # << >> /\ Head(name) = Head(pat)
              /\ fnmatch(Tail(name), Tail(pat))

\* The code point of a character, for the characters the model uses.
Ord(c) ==
    CASE c = "*" -> 42 [] c = "-" -> 45 [] c = "." -> 46 [] c = "/" -> 47
      [] c = "0" -> 48 [] c = "1" -> 49 [] c = "2" -> 50 [] c = "3" -> 51
      [] c = "4" -> 52 [] c = "5" -> 53 [] c = "6" -> 54 [] c = "7" -> 55
      [] c = "8" -> 56 [] c = "9" -> 57 [] c = ":" -> 58 [] c = "<" -> 60
      [] c = "=" -> 61 [] c = ">" -> 62 [] c = "_" -> 95 [] c = "a" -> 97
      [] c = "b" -> 98 [] c = "d" -> 100 [] c = "m" -> 109 [] c = "p" -> 112
      [] c = "q" -> 113 [] c = "s" -> 115 [] c = "v" -> 118 [] c = "x" -> 120
      [] OTHER -> 127

\* s < t in Python's string order (by code point, a proper prefix first).
RECURSIVE StrLess(_, _)
StrLess(s, t) ==
    IF t = << >> THEN FALSE
    ELSE IF s = << >> THEN TRUE
    ELSE IF Head(s) = Head(t) THEN StrLess(Tail(s), Tail(t))
    ELSE Ord(Head(s)) < Ord(Head(t))

\* sorted(S) of a set of distinct strings, as a sequence.
RECURSIVE sorted(_)
sorted(S) ==
    IF S = {} THEN << >>
    ELSE LET least == CHOOSE x \in S : \A y \in S \ {x} : StrLess(x, y)
         IN  << least >> \o sorted(S \ {least})

\* seq[::-1]
reversed(seq) == [i \in 1..Len(seq) |-> seq[Len(seq) + 1 - i]]

Digits == {"0", "1", "2", "3", "4", "5", "6", "7", "8", "9"}

DigitVal(c) == Ord(c) - 48

DigitChar(n) == CHOOSE c \in Digits : DigitVal(c) = n

RECURSIVE ParseNat(_)
ParseNat(s) ==
    IF s = << >> THEN 0 ELSE ParseNat(SubSeq(s, 1, Len(s) - 1)) * 10 + DigitVal(s[Len(s)])

RECURSIVE NatToStr(_)
NatToStr(n) == IF n < 10 THEN << DigitChar(n) >> ELSE NatToStr(n \div 10) \o << DigitChar(n % 10) >>

\* A number zero-padded on the left to a fixed width.
RECURSIVE ZeroPad(_, _)
ZeroPad(s, width) == IF Len(s) >= width THEN s ELSE ZeroPad(<< "0" >> \o s, width)

(***************************************************************************)
(* semantic_version: Version (imported as SemVer) and Spec.                *)
(***************************************************************************)
\* A numeric identifier: digits, with no leading zero.
IsNumeric(s) ==
    /\ s # << >>
    /\ \A i \in 1..Len(s) : s[i] \in Digits
    /\ (Len(s) > 1 => s[1] # "0")

\* Whether SemVer(s) parses: MAJOR.MINOR.PATCH with an optional -prerelease.
SemVerValid(s) ==
    LET main  == split(s, "-")[1]
        parts == split(main, ".")
    IN  /\ Len(parts) = 3
        /\ \A i \in 1..3 : IsNumeric(parts[i])
        /\ (Len(split(s, "-")) > 1 => Len(s) > Len(main) + 1)

\* SemVer(s), for a string that parses.
SemVer(s) ==
    LET main  == split(s, "-")[1]
        parts == split(main, ".")
    IN  [major |-> ParseNat(parts[1]), minor |-> ParseNat(parts[2]),
         patch |-> ParseNat(parts[3]),
         prerelease |-> SubSeq(s, Len(main) + 2, Len(s))]

\* str(version)
SemVerStr(v) ==
    NatToStr(v.major) \o << "." >> \o NatToStr(v.minor) \o << "." >> \o NatToStr(v.patch)
    \o (IF v.prerelease = << >> THEN << >> ELSE << "-" >> \o v.prerelease)

\* v < w in semantic-version precedence (a prerelease precedes its release).
SemVerLess(v, w) ==
    \/ v.major < w.major
    \/ v.major = w.major /\ v.minor < w.minor
    \/ v.major = w.major /\ v.minor = w.minor /\ v.patch < w.patch
    \/ /\ v.major = w.major /\ v.minor = w.minor /\ v.patch = w.patch
       /\ v.prerelease # << >>
       /\ (w.prerelease = << >> \/ StrLess(v.prerelease, w.prerelease))

\* The operator characters a clause of a Spec starts with.
ClauseOp(c) ==
    IF startswith(c, << "<", "=" >>) THEN << "<", "=" >>
    ELSE IF startswith(c, << ">", "=" >>) THEN << ">", "=" >>
    ELSE IF startswith(c, << "=", "=" >>) THEN << "=", "=" >>
    ELSE IF startswith(c, << "!", "=" >>) THEN << "!", "=" >>
    ELSE IF startswith(c, << "<" >>) THEN << "<" >>
    ELSE IF startswith(c, << ">" >>) THEN << ">" >>
    ELSE << >>

ClauseVersion(c) == SubSeq(c, Len(ClauseOp(c)) + 1, Len(c))

\* Whether Specification(s) parses: comma-separated clauses, operator then version.
SpecificationValid(s) ==
    \A i \in 1..Len(split(s, ",")) :
        LET c == split(s, ",")[i]
        IN  ClauseOp(c) # << >> /\ SemVerValid(ClauseVersion(c))

\* Specification(s): the clauses, each an operator and a version.
Specification(s) ==
    [i \in 1..Len(split(s, ",")) |->
        [op |-> ClauseOp(split(s, ",")[i]),
         version |-> SemVer(ClauseVersion(split(s, ",")[i]))]]

ClauseMatch(cl, v) ==
    CASE cl.op = << "<" >>      -> SemVerLess(v, cl.version)
      [] cl.op = << "<", "=" >> -> SemVerLess(v, cl.version) \/ v = cl.version
      [] cl.op = << ">" >>      -> SemVerLess(cl.version, v)
      [] cl.op = << ">", "=" >> -> SemVerLess(cl.version, v) \/ v = cl.version
      [] cl.op = << "=", "=" >> -> v = cl.version
      [] OTHER                  -> v # cl.version

\* spec.match(v): every clause holds.
SpecMatch(spec, v) == \A i \in 1..Len(spec) : ClauseMatch(spec[i], v)

\* spec.select(versions): the highest matching version, or None.
SpecSelect(spec, versions) ==
    LET ok == {versions[i] : i \in {j \in 1..Len(versions) : SpecMatch(spec, versions[j])}}
    IN  IF ok = {} THEN None
        ELSE Some(CHOOSE v \in ok : \A w \in ok \ {v} : SemVerLess(w, v))

(***************************************************************************)
(* Strings and names of the model's inputs.                                *)
(***************************************************************************)
Str_m     == << "m" >>
Str_s_m   == << "s", "_", "m" >>
Str_0_2_1 == << "0", ".", "2", ".", "1" >>
Str_0_3_0 == << "0", ".", "3", ".", "0" >>
Str_1_0_0 == << "1", ".", "0", ".", "0" >>
Str_0_1_0 == << "0", ".", "1", ".", "0" >>
Str_1_0   == << "1", ".", "0" >>
Str_lt_1_0_0 == << "<" >> \o Str_1_0_0
Str_ge_0_3_0 == << ">", "=" >> \o Str_0_3_0
Str_ge_2_0_0 == << ">", "=", "2", ".", "0", ".", "0" >>
Str_ge_x     == << ">", "=", "x" >>
Str_abs_d == << "/", "d" >>
Str_rel_d == << "d" >>
Str_s3_b_p == << "s", "3", ":", "/", "/", "b", "/", "p" >>

\* The working directory of the process, against which relative paths resolve.
Cwd == << "/" >>

Payloads == {"bar", "baz"}

(***************************************************************************)
(* velox/tools.py                                                          *)
(***************************************************************************)
TimestampWidth == 14

\* timestamp(): utcnow() as YYYYMMDDHHMMSS, a fixed-width string of digits with
\* second precision; the clock `t` counts seconds.
timestamp(t) == ZeroPad(NatToStr(t), TimestampWidth)

\* sha(s): the md5 digest of the string, a function of the string alone.
sha(s) == [md5 |-> s]

(***************************************************************************)
(* os.path                                                                 *)
(***************************************************************************)
\* The index of the last occurrence of character c in s[1..n], or 0.
RECURSIVE LastIndexUpTo(_, _, _)
LastIndexUpTo(s, c, n) ==
    IF n = 0 THEN 0 ELSE IF s[n] = c THEN n ELSE LastIndexUpTo(s, c, n - 1)

LastIndex(s, c) == LastIndexUpTo(s, c, Len(s))

\* os.path.split(p)[0]: the part before the last slash (the root slash kept).
path_head(p) ==
    LET i == LastIndex(p, "/")
    IN  IF i = 0 THEN << >> ELSE IF i = 1 THEN << "/" >> ELSE SubSeq(p, 1, i - 1)

\* os.path.split(p)[-1]: the part after the last slash.
path_tail(p) == SubSeq(p, LastIndex(p, "/") + 1, Len(p))

\* os.path.splitext(name)[0]: the name without its last extension.
splitext_root(name) ==
    LET i == LastIndex(name, ".")
    IN  IF i <= 1 THEN name ELSE SubSeq(name, 1, i - 1)

\* os.path.join(a, b)
path_join(a, b) ==
    IF startswith(b, << "/" >>) THEN b
    ELSE IF a = << >> \/ endswith(a, << "/" >>) THEN a \o b
    ELSE a \o << "/" >> \o b

\* os.path.abspath(p) for paths without . and .. components.
abspath(p) == IF startswith(p, << "/" >>) THEN p ELSE path_join(Cwd, p)

(***************************************************************************)
(* velox/filesystem.py                                                     *)
(*                                                                         *)
(* The store `files` maps the address of every stored object to its        *)
(* content: an absolute path for a local file, s3://bucket/key for a       *)
(* remote object.                                                          *)
(***************************************************************************)
S3Scheme == << "s", "3", ":", "/", "/" >>

is_s3_path(pth) == startswith(pth, S3Scheme)

\* parse_s3(pth): the bucket and the key.
parse_s3(pth) ==
    LET parts == split(replace(pth, S3Scheme, << >>), "/")
    IN  [bucket |-> parts[1], key |-> join(<< "/" >>, Tail(parts))]

\* glob(pattern): the directory part is literal, the last component is matched
\* against the names in that directory; each match is the directory part as
\* given joined with the name.
glob(files, pattern) ==
    LET dir == path_head(pattern)
        pat == path_tail(pattern)
    IN  { path_join(dir, path_tail(a)) :
            a \in { f \in DOMAIN files :
                      /\ ~ is_s3_path(f)
                      /\ path_head(f) = abspath(dir)
                      /\ fnmatch(path_tail(f), pat) } }

\* The keys of the bucket's objects that start with the key prefix.
s3_objects(files, bucket, prefix) ==
    { parse_s3(f).key :
        f \in { g \in DOMAIN files :
                  /\ is_s3_path(g)
                  /\ parse_s3(g).bucket = bucket
                  /\ startswith(parse_s3(g).key, prefix) } }

\* A listing in ascending order: find_matching_files without the reversal.
find_matching_files_ascending(files, prefix, specifier) ==
    IF ~ is_s3_path(prefix)
    THEN sorted(glob(files, path_join(prefix, specifier)))
    ELSE sorted({ k \in s3_objects(files, parse_s3(prefix).bucket,
                                   parse_s3(prefix).key) :
                    fnmatch(path_tail(k), specifier) })

find_matching_files(files, prefix, specifier) ==
    IF ~ is_s3_path(prefix)
    THEN reversed(sorted(glob(files, path_join(prefix, specifier))))
    ELSE reversed(sorted({ k \in s3_objects(files, parse_s3(prefix).bucket,
                                            parse_s3(prefix).key) :
                             fnmatch(path_tail(k), specifier) }))

stitch_filename(prefix, filename) ==
    IF is_s3_path(prefix)
    THEN (IF endswith(prefix, << "/" >>) THEN SubSeq(prefix, 1, Len(prefix) - 1) ELSE prefix)
         \o (IF startswith(filename, << "/" >>) THEN filename ELSE << "/" >> \o filename)
    ELSE path_join(prefix, filename)

\* The address in the store that a path handed to get_aware_filepath names.
address(path) ==
    IF is_s3_path(path)
    THEN S3Scheme \o parse_s3(path).bucket \o << "/" >> \o parse_s3(path).key
    ELSE abspath(path)

(***************************************************************************)
(* velox/obj.py: filename helpers.                                         *)
(***************************************************************************)
get_filename(filepath) == splitext_root(path_tail(filepath))

_get_naming_info(filepath) == split(get_filename(filepath), "_")

\* The string get_semver hands to SemVer: the third piece, less its first character.
semver_text(filepath) ==
    LET info == _get_naming_info(filepath)
    IN  IF Len(info) < 3 THEN << >> ELSE SubSeq(info[3], 2, Len(info[3]))

\* get_semver(filepath): the version, or None where SemVer raises ValueError.
try_SemVer(s) == IF SemVerValid(s) THEN Some(SemVer(s)) ELSE None

get_semver(filepath) == try_SemVer(semver_text(filepath))

(***************************************************************************)
(* State.                                                                  *)
(***************************************************************************)
VARIABLES
    table,      \* VeloxObject._registered_object_names: the keys, in order
    subTable,   \* _registered_object_names bound on a subclass, None if unbound
    regResult,  \* what the last registration or clear did
    pc,         \* per registering thread: "idle", or "append" after its check
    tkey,       \* per registering thread: the key it is registering
    tres,       \* per registering thread: how each of its registrations ended
    classes,    \* the classes defined: each its base and whether it is decorated
    made,       \* the last construction: the class and how __init__ ended
    temps,      \* the number of temporary files left on the local disk
    lastLite,   \* the last save_object or load_object call, None if none
    files,      \* the store: address -> content
    now,        \* the clock, in seconds
    nSaves,     \* the number of saves that returned
    nFailed,    \* the number of saves whose hook raised
    saveCls,    \* the classes whose instances saved, and the locations
    lastSave,   \* the last save that returned, None if none
    lastLoad,   \* the result of a load made since the last save, None if none
    live,       \* the __dict__ of the live object
    sched,      \* the live object's BackgroundScheduler: running, and its jobs
    futs,       \* the futures of the background loads, by slot
    rpc,        \* where the caller's thread and the job's thread are
    rloc,       \* per thread, inside _increment: the future it waits for, or
                \* the outcome it got from the future
    observed,   \* what the last guarded call returned or raised
    escaped,    \* per thread: the exception its last reload let escape
    lastSwap    \* the swap step just taken: the object before and after it

regVars   == << table, subTable, regResult >>
concVars  == << pc, tkey, tres >>
classVars == << classes, made >>
liteVars  == << temps, lastLite >>
storeVars == << files, now, nSaves, nFailed, saveCls, lastSave, lastLoad >>
liveCore  == << live, sched, futs, rpc, rloc, observed, escaped >>
liveVars  == << live, sched, futs, rpc, rloc, observed, escaped, lastSwap >>
vars      == << table, subTable, regResult, pc, tkey, tres, classes, made,
                temps, lastLite,
                files, now, nSaves, nFailed, saveCls, lastSave, lastLoad,
                live, sched, futs, rpc, rloc, observed, escaped, lastSwap >>

(***************************************************************************)
(* velox/obj.py: register_model and the registration table.                *)
(***************************************************************************)
InTable(tbl, key) == \E i \in 1..Len(tbl) : tbl[i] = key

\* '{}_v{}'.format(registered_name, SemVer(version))
composite_key(registered_name, version) ==
    registered_name \o << "_", "v" >> \o SemVerStr(SemVer(version))

\* `registered_name in VeloxObject._registered_object_names`
register_check(tbl, key) == InTable(tbl, key)

\* `VeloxObject._registered_object_names.append(registered_name)`
register_append(tbl, key) == Append(tbl, key)

\* register_model.__init__: the exception raised ("" if none), the table
\* afterwards, and the decorator's attributes.
register_init(tbl, registered_name, version, version_constraints) ==
    IF ~ SemVerValid(version)
    THEN [exc |-> "ValueError", table |-> tbl, key |-> None, spec |-> None]
    ELSE LET key == composite_key(registered_name, version)
         IN  IF register_check(tbl, key)
             THEN [exc |-> "VeloxCreationError", table |-> tbl,
                   key |-> Some(key), spec |-> None]
             ELSE IF IsNone(version_constraints)
             THEN [exc |-> "", table |-> register_append(tbl, key),
                   key |-> Some(key), spec |-> None]
             ELSE IF SpecificationValid(Get(version_constraints))
             THEN [exc |-> "", table |-> register_append(tbl, key),
                   key |-> Some(key),
                   spec |-> Some(Specification(Get(version_constraints)))]
             ELSE [exc |-> "ValueError", table |-> register_append(tbl, key),
                   key |-> Some(key), spec |-> None]

\* register_model.__call__ on a class that is "fresh" (a VeloxObject subclass
\* not yet registered), "registered" (it, or a base of it, already carries a
\* registered name) or "other" (not a VeloxObject subclass).
register_call(target) ==
    IF target = "other" THEN "TypeError"
    ELSE IF target = "registered" THEN "VeloxCreationError"
    ELSE ""

\* The class a successful decoration yields: its registered name, version
\* constraint and load hook.
Class(key, spec, hook) == [registered_name |-> key, _version_spec |-> spec, hook |-> hook]

\* clear_registered_names(cls) binds a new empty list to the attribute of the
\* class it is called on: the table itself when that is VeloxObject.
clear_table(tbl, receiver) == IF receiver = "VeloxObject" THEN << >> ELSE tbl

RegNames       == {Str_m, Str_s_m}
RegVersions    == {Str_0_2_1, Str_0_3_0, Str_1_0}
RegConstraints == {None, Some(Str_lt_1_0_0), Some(Str_ge_x)}
RegTargets     == {"fresh", "registered", "other"}
Receivers      == {"VeloxObject", "subclass"}

NoResult == [op |-> "none", exc |-> "", key |-> None, present |-> FALSE,
             unchanged |-> TRUE, afterClear |-> FALSE, wellFormed |-> FALSE]

\* @register_model(registered_name, version, version_constraints) applied to a class.
Register(n, v, c, target) ==
    LET r == register_init(table, n, v, c)
        e == IF r.exc # "" THEN r.exc ELSE register_call(target)
    IN  /\ Len(table) < MaxTable
        /\ table' = r.table
        /\ regResult' = [op |-> "register", exc |-> e, key |-> r.key,
                         present |-> (~ IsNone(r.key) /\ InTable(table, Get(r.key))),
                         unchanged |-> (r.table = table),
                         afterClear |-> (regResult.op = "clear"),
                         wellFormed |-> (/\ SemVerValid(v)
                                         /\ (IsNone(c) \/ SpecificationValid(Get(c)))
                                         /\ target = "fresh")]
        /\ UNCHANGED << subTable, concVars, classVars, liteVars, storeVars, liveVars >>

\* cls.clear_registered_names()
Clear(receiver) ==
    /\ table' = clear_table(table, receiver)
    /\ subTable' = IF receiver = "VeloxObject" THEN subTable ELSE Some(<< >>)
    /\ regResult' = [NoResult EXCEPT !.op = "clear", !.unchanged = (table' = table)]
    /\ UNCHANGED << concVars, classVars, liteVars, storeVars, liveVars >>

(***************************************************************************)
(* Concurrent registration: register_model.__init__ run by threads.  The   *)
(* membership test and the append are separate steps of the interpreter,   *)
(* and no lock is held between them.                                       *)
(***************************************************************************)
Threads == {1, 2}

\* A thread enters register_model.__init__ and runs it up to the membership test.
TRegisterCheck(t, n, v, c) ==
    /\ pc[t] = "idle"
    /\ IF ~ SemVerValid(v) \/ register_check(table, composite_key(n, v))
       THEN /\ tres' = [tres EXCEPT ![t] = None]
            /\ UNCHANGED << pc, tkey >>
       ELSE /\ pc' = [pc EXCEPT ![t] = "append"]
            /\ tkey' = [tkey EXCEPT ![t] = Some([key |-> composite_key(n, v), c |-> c])]
            /\ UNCHANGED tres
    /\ UNCHANGED << regVars, classVars, liteVars, storeVars, liveVars >>

\* The thread appends its key and finishes __init__.
TRegisterAppend(t) ==
    /\ pc[t] = "append"
    /\ Len(table) < MaxTable
    /\ table' = register_append(table, Get(tkey[t]).key)
    /\ tres' = [tres EXCEPT ![t] =
                  IF IsNone(Get(tkey[t]).c) \/ SpecificationValid(Get(Get(tkey[t]).c))
                  THEN Some(Get(tkey[t]).key) ELSE None]
    /\ pc' = [pc EXCEPT ![t] = "idle"]
    /\ tkey' = [tkey EXCEPT ![t] = None]
    /\ UNCHANGED << subTable, regResult, classVars, liteVars, storeVars, liveVars >>

\* A thread clears the table; registrations made before the clear are forgotten.
TClear(t, receiver) ==
    /\ pc[t] = "idle"
    /\ table' = clear_table(table, receiver)
    /\ subTable' = IF receiver = "VeloxObject" THEN subTable ELSE Some(<< >>)
    /\ tres' = IF receiver = "VeloxObject" THEN [u \in Threads |-> None] ELSE tres
    /\ UNCHANGED << regResult, pc, tkey, classVars, liteVars, storeVars, liveVars >>

(***************************************************************************)
(* velox/obj.py: VeloxObject save, loadpath and load.                      *)
(***************************************************************************)
\* The version of the class: SemVer(registered_name.split('_')[-1][1:])
class_version(cls) ==
    LET parts == split(cls.registered_name, "_")
        last  == parts[Len(parts)]
    IN  SemVer(SubSeq(last, 2, Len(last)))

\* formatted_filename(): '{timestamp}_{name}.vx'
formatted_filename(cls, t) ==
    timestamp(t) \o << "_" >> \o cls.registered_name \o << ".", "v", "x" >>

\* savepath(prefix)
savepath(cls, prefix, t) == stitch_filename(prefix, formatted_filename(cls, t))

\* The pattern loadpath searches with.
load_specifier(cls, specifier) ==
    LET sortkey == replace(cls.registered_name, SemVerStr(class_version(cls)), << "*" >>)
    IN  IF IsNone(specifier)
        THEN << "*", "_" >> \o sortkey \o << ".", "v", "x" >>
        ELSE << "*" >> \o Get(specifier) \o << "*", "_" >> \o sortkey \o << ".", "v", "x" >>

\* The files of `filelist` whose version get_semver reads as `best`, in order.
RECURSIVE with_version(_, _)
with_version(filelist, best) ==
    IF filelist = << >> THEN << >>
    ELSE (IF get_semver(Head(filelist)) = Some(best) THEN << Head(filelist) >> ELSE << >>)
         \o with_version(Tail(filelist), best)

\* A selection that takes the first entry of the listing whatever its version.
loadpath_first(cls, prefix, filelist) ==
    IF filelist = << >>
    THEN [exc |-> "VeloxConstraintError", chosen |-> None, path |-> None]
    ELSE [exc |-> "", chosen |-> Some(filelist[1]),
          path |-> Some(stitch_filename(prefix, filelist[1]))]

\* loadpath after the listing: the exception raised ("" if none), the entry of
\* the listing that was selected and the path returned.
loadpath_select(cls, prefix, filelist) ==
    LET failed(e) == [exc |-> e, chosen |-> None, path |-> None]
        found(f)  == [exc |-> "", chosen |-> Some(f), path |-> Some(stitch_filename(prefix, f))]
    IN  IF filelist = << >> THEN failed("VeloxConstraintError")
        ELSE IF IsNone(cls._version_spec) THEN found(filelist[1])
        ELSE IF \E i \in 1..Len(filelist) : IsNone(get_semver(filelist[i]))
             THEN failed("ValueError")
        ELSE LET version_identifiers == [i \in 1..Len(filelist) |-> Get(get_semver(filelist[i]))]
                 best_match == SpecSelect(Get(cls._version_spec), version_identifiers)
             IN  IF IsNone(best_match) THEN failed("VeloxConstraintError")
                 ELSE found(with_version(filelist, Get(best_match))[1])

\* loadpath(prefix, specifier)
loadpath(fs, cls, prefix, specifier) ==
    loadpath_select(cls, prefix,
                    find_matching_files(fs, prefix, load_specifier(cls, specifier)))

\* The content the save hook writes: the pickled payload.  `by` records the
\* class whose instance wrote it; the program does not read it.
Written(cls, o) == [data |-> Some(o), by |-> cls.registered_name]

\* The content of a file opened for writing whose hook raised before writing.
Truncated(cls) == [data |-> None, by |-> cls.registered_name]

\* save(prefix) by an instance holding `o`, whose hook completes or raises.
save_files(fs, cls, prefix, t, o, hookOk) ==
    LET outpath == savepath(cls, prefix, t)
        addr    == address(outpath)
        others  == DOMAIN fs \ {addr}
    IN  IF hookOk
        THEN [a \in others \cup {addr} |-> IF a = addr THEN Written(cls, o) ELSE fs[a]]
        ELSE IF is_s3_path(outpath) THEN fs
        ELSE [a \in others \cup {addr} |-> IF a = addr THEN Truncated(cls) ELSE fs[a]]

\* A load that hands back whatever the hook returned.
load_open_untyped(fs, cls, is_s3, at, filesha, skip_sha) ==
    LET failed(e) == [exc |-> e, read |-> None, o |-> None, sha |-> None]
    IN  IF skip_sha = Some(filesha) THEN failed("VeloxConstraintError")
        ELSE IF at \notin DOMAIN fs
             THEN failed(IF is_s3 THEN "ClientError" ELSE "IOError")
        ELSE IF IsNone(fs[at].data) THEN failed("EOFError")
        ELSE [exc |-> "", read |-> Some(at), o |-> fs[at].data, sha |-> Some(filesha)]

\* load once loadpath has returned `at`, the address of the file at filepath,
\* and filesha, the hash of its name: the exception raised ("" if none), the
\* address read, the payload and the hash of the object returned.
load_open(fs, cls, is_s3, at, filesha, skip_sha) ==
    LET failed(e) == [exc |-> e, read |-> None, o |-> None, sha |-> None]
    IN  IF skip_sha = Some(filesha) THEN failed("VeloxConstraintError")
        ELSE IF at \notin DOMAIN fs
             THEN failed(IF is_s3 THEN "ClientError" ELSE "IOError")
        ELSE IF cls.hook # "object" THEN failed("TypeError")
        ELSE IF IsNone(fs[at].data) THEN failed("EOFError")
        ELSE [exc |-> "", read |-> Some(at), o |-> fs[at].data, sha |-> Some(filesha)]

\* load after loadpath, whose outcome is lp.
load_from(fs, cls, lp, skip_sha) ==
    IF lp.exc # ""
    THEN [exc |-> lp.exc, read |-> None, o |-> None, sha |-> None]
    ELSE load_open(fs, cls, is_s3_path(Get(lp.path)), address(Get(lp.path)),
                   sha(get_filename(Get(lp.path))), skip_sha)

\* load(prefix, specifier, skip_sha)
load(fs, cls, prefix, specifier, skip_sha) ==
    load_from(fs, cls, loadpath(fs, cls, prefix, specifier), skip_sha)

(***************************************************************************)
(* The classes of the save/load model, each the result of a registration   *)
(* (the classes of test_version_constraints, and one whose registered name *)
(* holds an underscore, like wrapper.py's simple_pickle).                  *)
(***************************************************************************)
Registered(n, v, c) ==
    LET r == register_init(<< >>, n, v, c)
    IN  Class(Get(r.key), r.spec, "object")

ModelA == Registered(Str_m, Str_0_2_1, Some(Str_lt_1_0_0))
ModelB == Registered(Str_m, Str_0_3_0, None)
ModelC == Registered(Str_m, Str_1_0_0, Some(Str_ge_0_3_0))
ModelD == Registered(Str_s_m, Str_0_1_0, None)

\* A registered class whose load hook returns a string, not an instance.
Str_i == << "i" >>
InconsistentTypedModel ==
    Class(Get(register_init(<< >>, Str_i, Str_0_1_0, None).key), None, "str")

HookClasses == {ModelB, InconsistentTypedModel}

StoreClasses == {ModelA, ModelB, ModelC, ModelD}
Prefixes     == {Str_abs_d, Str_rel_d}
Specifiers   == {None, Some(<< "1" >>)}

\* The hashes a caller of load asks to skip: none, or that of the file last saved.
SkipShas(saved) ==
    {None} \cup (IF IsNone(saved) THEN {} ELSE {Some(sha(get_filename(Get(saved).path)))})

\* The directory or key prefix a prefix names.
location(prefix) == address(prefix)

\* The addresses of the objects stored at a location.
stored_at(fs, loc) ==
    { a \in DOMAIN fs : IF is_s3_path(loc) THEN startswith(a, loc \o << "/" >>)
                        ELSE path_head(a) = loc }

\* The clock advances by a second.
Tick ==
    /\ now < MaxClock
    /\ now' = now + 1
    /\ lastLoad' = None
    /\ lastSwap' = None
    /\ UNCHANGED << regVars, concVars, classVars, liteVars, files, nSaves, nFailed, saveCls, lastSave, liveCore >>

\* Class(o).save(prefix=prefix)
Save(cls, prefix, o, hookOk) ==
    /\ nSaves + nFailed < MaxSaves
    /\ files' = save_files(files, cls, prefix, now, o, hookOk)
    /\ nSaves' = IF hookOk THEN nSaves + 1 ELSE nSaves
    /\ nFailed' = IF hookOk THEN nFailed ELSE nFailed + 1
    /\ saveCls' = saveCls \cup {[cls |-> cls, loc |-> location(prefix)]}
    /\ lastSave' = IF hookOk
                   THEN Some([cls |-> cls, o |-> o, t |-> now,
                              polled |-> ~ IsNone(live["_job_pointer"]),
                              path |-> address(savepath(cls, prefix, now)),
                              before |-> stored_at(files, location(prefix))])
                   ELSE None
    /\ lastLoad' = None
    /\ lastSwap' = None
    /\ UNCHANGED << regVars, concVars, classVars, liteVars, now, liveCore >>

\* Class.load(prefix=prefix, specifier=specifier, skip_sha=skip_sha)
Load(cls, prefix, specifier, skip_sha) ==
    /\ IsNone(lastLoad)
    /\ lastLoad' = Some([cls |-> cls, prefix |-> prefix, specifier |-> specifier,
                         skip_sha |-> skip_sha,
                         res |-> load(files, cls, prefix, specifier, skip_sha)])
    /\ UNCHANGED << regVars, concVars, classVars, liteVars, files, now, nSaves, nFailed, saveCls, lastSave, liveVars >>

(***************************************************************************)
(* velox/obj.py: the live object, its reloads and its guarded calls.       *)
(* An object is its __dict__.  Inside VeloxObject the names __incr_underway *)
(* and __replacement are stored under their mangled names.                 *)
(***************************************************************************)
K_incr == "_VeloxObject__incr_underway"
K_repl == "_VeloxObject__replacement"

ObjKeys == { K_incr, K_repl, "_scheduler", "_job_pointer", "_current_sha",
             "_parent_instantiated", "_o" }

\* The characters of an attribute's name.
AttrChars(k) ==
    CASE k = "_VeloxObject__incr_underway" ->
             << "_", "V", "e", "l", "o", "x", "O", "b", "j", "e", "c", "t", "_", "_", "i", "n", "c", "r", "_", "u", "n", "d", "e", "r", "w", "a", "y" >>
      [] k = "_VeloxObject__replacement" ->
             << "_", "V", "e", "l", "o", "x", "O", "b", "j", "e", "c", "t", "_", "_", "r", "e", "p", "l", "a", "c", "e", "m", "e", "n", "t" >>
      [] k = "_scheduler" ->
             << "_", "s", "c", "h", "e", "d", "u", "l", "e", "r" >>
      [] k = "_job_pointer" ->
             << "_", "j", "o", "b", "_", "p", "o", "i", "n", "t", "e", "r" >>
      [] k = "_current_sha" ->
             << "_", "c", "u", "r", "r", "e", "n", "t", "_", "s", "h", "a" >>
      [] k = "_parent_instantiated" ->
             << "_", "p", "a", "r", "e", "n", "t", "_", "i", "n", "s", "t", "a", "n", "t", "i", "a", "t", "e", "d" >>
      [] k = "_o" ->
             << "_", "o" >>

\* VeloxObject.__init__ followed by the subclass's `self._o = o`; `scheduler`
\* names the BackgroundScheduler the constructor creates.
new_object(o, scheduler) ==
    [k \in ObjKeys |->
        CASE k = K_incr -> FALSE
          [] k = K_repl -> None
          [] k = "_scheduler" -> scheduler
          [] k = "_job_pointer" -> None
          [] k = "_current_sha" -> None
          [] k = "_parent_instantiated" -> TRUE
          [] k = "_o" -> o]

\* A setter that sets whatever the object holds.
current_sha_set_unchecked(self, value) ==
    [exc |-> "", self |-> [self EXCEPT !["_current_sha"] = value]]

\* The setter of the current_sha property: the exception raised ("" if none)
\* and the object afterwards.
current_sha_set(self, value) ==
    IF ~ IsNone(self["_current_sha"])
    THEN [exc |-> "ValueError", self |-> self]
    ELSE [exc |-> "", self |-> [self EXCEPT !["_current_sha"] = value]]

\* What a successful load returns: the object the load hook builds with a
\* scheduler of its own, then `obj.current_sha = filesha`.
loaded_object(res, scheduler) ==
    current_sha_set(new_object(Get(res.o), scheduler), res.sha).self

\* _needs_increment
_needs_increment(self, fu) ==
    IF IsNone(self[K_repl]) THEN FALSE ELSE fu[Get(self[K_repl])].st = "done"

\* A test that passes no key starting with an underscore.
copied_public(k) == ~ startswith(AttrChars(k), << "_" >>)

\* A test that passes every key not starting with two underscores.
copied_undunder(k) == ~ startswith(AttrChars(k), << "_", "_" >>)

\* The test _increment applies to each key of the replacement.
copied(k) ==
    /\ k \notin {"_scheduler", "_job_pointer"}
    /\ ~ startswith(AttrChars(k), << "_", "_" >>)

\* The loop of _increment over replacement.__dict__.items().
increment_copy(self, replacement) ==
    [k \in DOMAIN self \cup DOMAIN replacement |->
        IF k \in DOMAIN replacement /\ copied(k) THEN replacement[k] ELSE self[k]]

\* A swap step that copies whatever the hashes are.
_increment_always(self, replacement) ==
    [increment_copy(self, replacement) EXCEPT ![K_incr] = FALSE, ![K_repl] = None]

\* _increment once the replacement's result is in hand.
_increment(self, replacement) ==
    LET swapped == IF self["_current_sha"] # replacement["_current_sha"]
                   THEN increment_copy(self, replacement)
                   ELSE self
    IN  [swapped EXCEPT ![K_incr] = FALSE, ![K_repl] = None]

ReloadThreads == {"caller", "job"}
Slots         == 1..MaxLoaders
LiveScheduler == 0
JobId         == 1

\* The class of the live object, and the arguments of its reloads.
ReloadClass     == ModelB
ReloadPrefix    == Str_abs_d
ReloadSpecifier == None

FreeFut  == [st |-> "free", exc |-> "", obj |-> None]
NoLocal  == [fut |-> None, out |-> None, todo |-> {}, before |-> None]
NoCall   == [o |-> None, exc |-> ""]

\* What a completed future holds: the exception raised ("" if none) and the
\* object returned.
outcome(fut) == [exc |-> fut.exc, obj |-> fut.obj]

\* A completed future the live object no longer refers to is reclaimed (a
\* thread that read a completed future holds its outcome, not the future).
reclaim(fu, self) ==
    [f \in DOMAIN fu |->
        IF fu[f].st = "done" /\ self[K_repl] # Some(f) THEN FreeFut ELSE fu[f]]

\* A future completes: the threads waiting for it get its outcome.
deliver(loc, f, fut) ==
    [th \in ReloadThreads |->
        IF loc[th].fut = Some(f) THEN [NoLocal EXCEPT !.out = Some(outcome(fut))]
        ELSE loc[th]]

\* The slot a new Future() takes.
FreeSlots(fu) == { f \in DOMAIN fu : fu[f].st = "free" }
NewSlot(fu)   == CHOOSE f \in FreeSlots(fu) : \A g \in FreeSlots(fu) : f <= g

\* __reload, first statement: self.__incr_underway = True
reload_begin(th) ==
    /\ live' = [live EXCEPT ![K_incr] = TRUE]
    /\ rpc' = [rpc EXCEPT ![th] = "launch"]
    /\ escaped' = [escaped EXCEPT ![th] = ""]
    /\ lastSwap' = None
    /\ UNCHANGED << regVars, concVars, classVars, liteVars, storeVars, sched, futs, rloc, observed >>

\* reload(prefix) with scheduled=False, called on the caller's thread.
ReloadUnscheduled ==
    /\ rpc["caller"] = "idle"
    /\ reload_begin("caller")

\* The scheduler runs the interval job; max_instances=1 keeps one run at a time.
JobFire ==
    /\ sched.running
    /\ sched.jobs # {}
    /\ rpc["job"] = "idle"
    /\ reload_begin("job")

\* self.__replacement = self.__load_async(prefix, specifier, None): a future
\* is made, the loading thread is started, the future is stored in place of
\* the one the attribute held.
ReloadLaunch(th) ==
    /\ rpc[th] = "launch"
    /\ LET dropped == reclaim(futs, [live EXCEPT ![K_repl] = None])
       IN  /\ FreeSlots(dropped) # {}
           /\ live' = [live EXCEPT ![K_repl] = Some(NewSlot(dropped))]
           /\ futs' = [dropped EXCEPT ![NewSlot(dropped)] = [FreeFut EXCEPT !.st = "running"]]
    /\ rpc' = [rpc EXCEPT ![th] = "result"]
    /\ lastSwap' = None
    /\ UNCHANGED << regVars, concVars, classVars, liteVars, storeVars, sched, rloc, observed, escaped >>

\* The future the loading thread completes when its load had the outcome res:
\* the loaded object, or the exception.
completed(f, res) ==
    IF res.exc = ""
    THEN [st |-> "done", exc |-> "", obj |-> Some(loaded_object(res, f))]
    ELSE [st |-> "done", exc |-> res.exc, obj |-> None]

\* The end of the loading thread, whose load had the outcome res: on success
\* self.__incr_underway = False; the future completes.
\* A loading thread whose failure clears what the live object holds.
load_async_end_clearing(f, res) ==
    /\ live' = IF res.exc = "" THEN [live EXCEPT ![K_incr] = FALSE]
               ELSE [live EXCEPT !["_o"] = "empty", !["_current_sha"] = None,
                                 !["_job_pointer"] = None]
    /\ futs' = reclaim([futs EXCEPT ![f] = completed(f, res)], live)
    /\ rloc' = deliver(rloc, f, completed(f, res))

load_async_end(f, res) ==
    /\ live' = IF res.exc = "" THEN [live EXCEPT ![K_incr] = FALSE] ELSE live
    /\ futs' = reclaim([futs EXCEPT ![f] = completed(f, res)], live)
    /\ rloc' = deliver(rloc, f, completed(f, res))

\* The loading thread: cls.load(prefix, specifier, skip_sha=None) and what
\* follows it in __load_async and call_with_future.
LoadComplete(f) ==
    /\ futs[f].st = "running"
    /\ load_async_end(f, load(files, ReloadClass, ReloadPrefix, ReloadSpecifier, None))
    /\ lastSwap' = None
    /\ UNCHANGED << regVars, concVars, classVars, liteVars, storeVars, sched, rpc, observed, escaped >>

\* A __reload whose try statement catches nothing.
raise_uncaught(th, e) ==
    /\ rpc' = [rpc EXCEPT ![th] = "idle"]
    /\ IF rpc[th] \in {"result", "wait"}
       THEN /\ escaped' = [escaped EXCEPT ![th] = e]
            /\ UNCHANGED observed
       ELSE /\ observed' = [o |-> None, exc |-> e]
            /\ UNCHANGED escaped

\* Where a thread goes when an exception leaves _increment: __reload catches
\* VeloxConstraintError only; a guarded call catches nothing.
raise_from_increment(th, e) ==
    /\ rpc' = [rpc EXCEPT ![th] = "idle"]
    /\ IF rpc[th] \in {"result", "wait"}
       THEN /\ escaped' = [escaped EXCEPT ![th] =
                              IF e = "VeloxConstraintError" THEN "" ELSE e]
            /\ UNCHANGED observed
       ELSE /\ observed' = [o |-> None, exc |-> e]
            /\ UNCHANGED escaped

\* _increment, `self.__replacement.result`: the attribute is read.
IncrementRead(th) ==
    /\ rpc[th] \in {"result", "g_result"}
    /\ IF IsNone(live[K_repl])
       THEN /\ raise_from_increment(th, "AttributeError")
            /\ UNCHANGED rloc
       ELSE /\ rloc' = [rloc EXCEPT ![th] =
                           IF futs[Get(live[K_repl])].st = "done"
                           THEN [NoLocal EXCEPT !.out = Some(outcome(futs[Get(live[K_repl])]))]
                           ELSE [NoLocal EXCEPT !.fut = live[K_repl]]]
            /\ rpc' = [rpc EXCEPT ![th] = IF rpc[th] = "result" THEN "wait" ELSE "g_wait"]
            /\ UNCHANGED << observed, escaped >>
    /\ lastSwap' = None
    /\ UNCHANGED << regVars, concVars, classVars, liteVars, storeVars, live, sched, futs >>

\* _increment, `.result()`: the thread waits for the future, and gets the
\* loaded object or the load's exception.
IncrementResult(th) ==
    /\ rpc[th] \in {"wait", "g_wait"}
    /\ ~ IsNone(rloc[th].out)
    /\ IF Get(rloc[th].out).exc # ""
       THEN /\ raise_from_increment(th, Get(rloc[th].out).exc)
            /\ rloc' = [rloc EXCEPT ![th] = NoLocal]
       ELSE /\ rpc' = [rpc EXCEPT ![th] = IF rpc[th] = "wait" THEN "swap" ELSE "g_swap"]
            /\ UNCHANGED << rloc, observed, escaped >>
    /\ lastSwap' = None
    /\ UNCHANGED << regVars, concVars, classVars, liteVars, storeVars, live, sched, futs >>

\* _increment, the rest: the hashes are compared, the fields copied, the
\* bookkeeping reset.
IncrementSwap(th) ==
    /\ rpc[th] \in {"swap", "g_swap"}
    /\ live' = _increment(live, Get(Get(rloc[th].out).obj))
    /\ lastSwap' = Some([by |-> th, before |-> live,
                         replacement |-> Get(Get(rloc[th].out).obj), after |-> live'])
    /\ rloc' = [rloc EXCEPT ![th] = NoLocal]
    /\ futs' = reclaim(futs, live')
    /\ rpc' = [rpc EXCEPT ![th] = IF rpc[th] = "swap" THEN "idle" ELSE "body"]
    /\ UNCHANGED << regVars, concVars, classVars, liteVars, storeVars, sched, observed, escaped >>

\* The rest of _increment statement by statement, as the interpreter runs it
\* when other threads run between its statements.  First the comparison of
\* the hashes: the keys the loop will copy are those of the replacement that
\* pass its test.
IncrementCompare(th) ==
    /\ rpc[th] \in {"swap", "g_swap"}
    /\ LET replacement == Get(Get(rloc[th].out).obj)
       IN  IF live["_current_sha"] # replacement["_current_sha"]
           THEN /\ rloc' = [rloc EXCEPT ![th].todo = { k \in DOMAIN replacement : copied(k) },
                                        ![th].before = Some(live)]
                /\ rpc' = [rpc EXCEPT ![th] = IF rpc[th] = "swap" THEN "copy" ELSE "g_copy"]
           ELSE /\ rpc' = [rpc EXCEPT ![th] = IF rpc[th] = "swap" THEN "reset" ELSE "g_reset"]
                /\ UNCHANGED rloc
    /\ lastSwap' = None
    /\ UNCHANGED << regVars, concVars, classVars, liteVars, storeVars, live, sched, futs, observed, escaped >>

\* One turn of the loop: self.__dict__[k] = v, for the key the iteration of
\* the replacement's dictionary yields next (the order is the dictionary's).
IncrementCopyKey(th) ==
    /\ rpc[th] \in {"copy", "g_copy"}
    /\ \E k \in rloc[th].todo :
          /\ live' = [live EXCEPT ![k] = Get(Get(rloc[th].out).obj)[k]]
          /\ rloc' = [rloc EXCEPT ![th].todo = rloc[th].todo \ {k}]
          /\ rpc' = [rpc EXCEPT ![th] =
                        IF rloc[th].todo # {k} THEN rpc[th]
                        ELSE IF rpc[th] = "copy" THEN "reset" ELSE "g_reset"]
    /\ lastSwap' = None
    /\ UNCHANGED << regVars, concVars, classVars, liteVars, storeVars, sched, futs, observed, escaped >>

\* The last two statements: self.__incr_underway = False and
\* self.__replacement = None.
IncrementReset(th) ==
    /\ rpc[th] \in {"reset", "g_reset"}
    /\ live' = [live EXCEPT ![K_incr] = FALSE, ![K_repl] = None]
    /\ rloc' = [rloc EXCEPT ![th] = NoLocal]
    /\ futs' = reclaim(futs, live')
    /\ rpc' = [rpc EXCEPT ![th] = IF rpc[th] = "reset" THEN "idle" ELSE "body"]
    /\ lastSwap' = None
    /\ UNCHANGED << regVars, concVars, classVars, liteVars, storeVars, sched, observed, escaped >>

\* A wrapper that goes to the method without looking at the pending reload.
GuardedCallUnguarded ==
    /\ rpc["caller"] = "idle"
    /\ rpc' = [rpc EXCEPT !["caller"] = "body"]
    /\ lastSwap' = None
    /\ UNCHANGED << regVars, concVars, classVars, liteVars, storeVars, live, sched, futs, rloc,
                    observed, escaped >>

\* A call of a method wrapped by _zero_downtime: `if cls._needs_increment`.
GuardedCall ==
    /\ rpc["caller"] = "idle"
    /\ rpc' = [rpc EXCEPT !["caller"] =
                  IF _needs_increment(live, futs) THEN "g_result" ELSE "body"]
    /\ lastSwap' = None
    /\ UNCHANGED << regVars, concVars, classVars, liteVars, storeVars, live, sched, futs, rloc,
                    observed, escaped >>

\* The wrapped method runs: obj() returns self._o.
CallBody ==
    /\ rpc["caller"] = "body"
    /\ observed' = [o |-> Some(live["_o"]), exc |-> ""]
    /\ rpc' = [rpc EXCEPT !["caller"] = "idle"]
    /\ lastSwap' = None
    /\ UNCHANGED << regVars, concVars, classVars, liteVars, storeVars, live, sched, futs, rloc,
                    escaped >>

\* The handle of the job add_job makes: one the scheduler does not hold.
add_job(jobs) == JobId + Cardinality(jobs)

\* A scheduled reload that does not look at the job handle.
ReloadScheduledUnchecked ==
    /\ rpc["caller"] = "idle"
    /\ sched' = [running |-> TRUE, jobs |-> sched.jobs \cup {add_job(sched.jobs)}]
    /\ live' = [live EXCEPT !["_job_pointer"] = Some(add_job(sched.jobs))]
    /\ escaped' = [escaped EXCEPT !["caller"] = ""]
    /\ lastSwap' = None
    /\ UNCHANGED << regVars, concVars, classVars, liteVars, storeVars, futs, rpc, rloc, observed >>

\* reload(prefix, scheduled=True, ...)
ReloadScheduled ==
    /\ rpc["caller"] = "idle"
    /\ IF ~ IsNone(live["_job_pointer"])
       THEN /\ sched' = [sched EXCEPT !.running = TRUE]
            /\ escaped' = [escaped EXCEPT !["caller"] = "ValueError"]
            /\ UNCHANGED live
       ELSE /\ sched' = [running |-> TRUE, jobs |-> sched.jobs \cup {add_job(sched.jobs)}]
            /\ live' = [live EXCEPT !["_job_pointer"] = Some(add_job(sched.jobs))]
            /\ escaped' = [escaped EXCEPT !["caller"] = ""]
    /\ lastSwap' = None
    /\ UNCHANGED << regVars, concVars, classVars, liteVars, storeVars, futs, rpc, rloc, observed >>

\* A cancel that does not look at the job handle.
CancelUnchecked ==
    /\ rpc["caller"] = "idle"
    /\ sched' = [sched EXCEPT !.jobs = {}]
    /\ live' = [live EXCEPT !["_job_pointer"] = None]
    /\ escaped' = [escaped EXCEPT !["caller"] = ""]
    /\ lastSwap' = None
    /\ UNCHANGED << regVars, concVars, classVars, liteVars, storeVars, futs, rpc, rloc, observed >>

\* cancel_scheduled_reload()
CancelScheduledReload ==
    /\ rpc["caller"] = "idle"
    /\ IF IsNone(live["_job_pointer"])
       THEN /\ escaped' = [escaped EXCEPT !["caller"] = "ValueError"]
            /\ UNCHANGED << live, sched >>
       ELSE /\ sched' = [sched EXCEPT !.jobs = {}]
            /\ live' = [live EXCEPT !["_job_pointer"] = None]
            /\ escaped' = [escaped EXCEPT !["caller"] = ""]
    /\ lastSwap' = None
    /\ UNCHANGED << regVars, concVars, classVars, liteVars, storeVars, futs, rpc, rloc, observed >>

\* o = Model(payload)
Construct(o) ==
    /\ rpc["caller"] = "idle"
    /\ live' = new_object(o, LiveScheduler)
    /\ escaped' = [escaped EXCEPT !["caller"] = ""]
    /\ lastLoad' = None
    /\ lastSwap' = None
    /\ UNCHANGED << regVars, concVars, classVars, liteVars, files, now, nSaves, nFailed, saveCls, lastSave,
                    sched, futs, rpc, rloc, observed >>

\* o = Model.load(prefix), whose load had the outcome res: the name is bound
\* to the object load returns, or the exception leaves the call.
load_object(res) ==
    /\ live' = IF res.exc = "" THEN loaded_object(res, LiveScheduler) ELSE live
    /\ escaped' = [escaped EXCEPT !["caller"] = res.exc]

LoadObject ==
    /\ rpc["caller"] = "idle"
    /\ load_object(load(files, ReloadClass, ReloadPrefix, ReloadSpecifier, None))
    /\ lastLoad' = None
    /\ lastSwap' = None
    /\ UNCHANGED << regVars, concVars, classVars, liteVars, files, now, nSaves, nFailed, saveCls, lastSave,
                    sched, futs, rpc, rloc, observed >>

\* The values the caller assigns to current_sha.
ShaValues == { None, Some(sha(Str_m)) }

\* o.current_sha = value
SetCurrentSha(value) ==
    /\ rpc["caller"] = "idle"
    /\ live' = current_sha_set(live, value).self
    /\ escaped' = [escaped EXCEPT !["caller"] = current_sha_set(live, value).exc]
    /\ lastLoad' = None
    /\ lastSwap' = None
    /\ UNCHANGED << regVars, concVars, classVars, liteVars, files, now, nSaves, nFailed, saveCls, lastSave,
                    sched, futs, rpc, rloc, observed >>

(***************************************************************************)
(* Specifications.                                                         *)
(***************************************************************************)
InitRegistry ==
    /\ table = << >>
    /\ subTable = None
    /\ regResult = NoResult
    /\ pc = [t \in Threads |-> "idle"]
    /\ tkey = [t \in Threads |-> None]
    /\ tres = [t \in Threads |-> None]
    /\ classes = << >>
    /\ made = None
    /\ temps = 0
    /\ lastLite = None

InitStore ==
    /\ files = << >>
    /\ now = 0
    /\ nSaves = 0
    /\ nFailed = 0
    /\ saveCls = {}
    /\ lastSave = None
    /\ lastLoad = None

InitObject ==
    /\ live = new_object("empty", LiveScheduler)
    /\ sched = [running |-> FALSE, jobs |-> {}]
    /\ rpc = [th \in ReloadThreads |-> "idle"]
    /\ rloc = [th \in ReloadThreads |-> NoLocal]
    /\ observed = NoCall
    /\ escaped = [th \in ReloadThreads |-> ""]
    /\ lastSwap = None

InitLive == InitObject /\ futs = [f \in Slots |-> FreeFut]

Init == InitRegistry /\ InitStore /\ InitLive

\* The state once the classes of the save/load model have been registered.
InitRegistered ==
    /\ table = << ModelA.registered_name, ModelB.registered_name,
                  ModelC.registered_name, ModelD.registered_name >>
    /\ subTable = None
    /\ regResult = NoResult
    /\ pc = [t \in Threads |-> "idle"]
    /\ tkey = [t \in Threads |-> None]
    /\ tres = [t \in Threads |-> None]
    /\ classes = << >>
    /\ made = None
    /\ temps = 0
    /\ lastLite = None

InitClasses == InitRegistered /\ InitStore /\ InitLive

\* The same, with room for MaxInFlight loading threads at a time.
InitLoads ==
    /\ InitRegistered
    /\ InitStore
    /\ InitObject
    /\ futs = [f \in 1..MaxInFlight |-> FreeFut]

\* Registrations and clears made one after the other.
NextRegistry ==
    \/ \E n \in RegNames, v \in RegVersions, c \in RegConstraints, target \in RegTargets :
          Register(n, v, c, target)
    \/ \E receiver \in Receivers : Clear(receiver)

SpecRegistry == Init /\ [][NextRegistry]_vars

\* Registrations and clears made by two threads.
NextThreads ==
    \/ \E t \in Threads, n \in RegNames, v \in RegVersions, c \in RegConstraints :
          TRegisterCheck(t, n, v, c)
    \/ \E t \in Threads : TRegisterAppend(t)
    \/ \E t \in Threads, receiver \in Receivers : TClear(t, receiver)

SpecThreads == Init /\ [][NextThreads]_vars

\* Saves and loads of the registered classes, as the clock advances.
NextStore ==
    \/ Tick
    \/ \E cls \in StoreClasses, prefix \in Prefixes, o \in Payloads, hookOk \in BOOLEAN :
          Save(cls, prefix, o, hookOk)
    \/ \E cls \in StoreClasses, prefix \in Prefixes, specifier \in Specifiers :
          \E skip_sha \in SkipShas(lastSave) : Load(cls, prefix, specifier, skip_sha)

SpecStore == InitClasses /\ [][NextStore]_vars

\* A live object that is reloaded and called while other instances of its
\* class save to the location it polls.
NextReload ==
    \/ Tick
    \/ \E o \in Payloads : Save(ReloadClass, ReloadPrefix, o, TRUE)
    \/ ReloadScheduled
    \/ CancelScheduledReload
    \/ ReloadUnscheduled
    \/ JobFire
    \/ \E th \in ReloadThreads : ReloadLaunch(th)
    \/ \E f \in Slots : LoadComplete(f)
    \/ \E th \in ReloadThreads : IncrementRead(th)
    \/ \E th \in ReloadThreads : IncrementResult(th)
    \/ \E th \in ReloadThreads : IncrementSwap(th)
    \/ GuardedCall
    \/ CallBody

SpecReload == InitClasses /\ [][NextReload]_vars

\* A live object with a scheduled reload, called while other instances of its
\* class save to the location it polls.
NextHotSwap ==
    \/ Tick
    \/ \E o \in Payloads : Save(ReloadClass, ReloadPrefix, o, TRUE)
    \/ ReloadScheduled
    \/ JobFire
    \/ \E th \in ReloadThreads : ReloadLaunch(th)
    \/ \E f \in Slots : LoadComplete(f)
    \/ \E th \in ReloadThreads : IncrementRead(th)
    \/ \E th \in ReloadThreads : IncrementResult(th)
    \/ \E th \in ReloadThreads : IncrementSwap(th)
    \/ GuardedCall
    \/ CallBody

\* Reloads of the live object asked for by its caller and by its scheduled
\* job, with the loading threads they start.
NextLoads ==
    \/ \E o \in Payloads : Save(ReloadClass, ReloadPrefix, o, TRUE)
    \/ ReloadScheduled
    \/ ReloadUnscheduled
    \/ JobFire
    \/ \E th \in ReloadThreads : ReloadLaunch(th)
    \/ \E f \in DOMAIN futs : LoadComplete(f)
    \/ \E th \in ReloadThreads : IncrementRead(th)
    \/ \E th \in ReloadThreads : IncrementResult(th)
    \/ \E th \in ReloadThreads : IncrementSwap(th)
    \/ GuardedCall
    \/ CallBody

SpecLoads == InitLoads /\ [][NextLoads]_vars

\* The scheduled reload and guarded calls, with the swap taken statement by
\* statement.
NextSwapSteps ==
    \/ \E o \in Payloads : Save(ReloadClass, ReloadPrefix, o, TRUE)
    \/ ReloadScheduled
    \/ JobFire
    \/ \E th \in ReloadThreads : ReloadLaunch(th)
    \/ \E f \in DOMAIN futs : LoadComplete(f)
    \/ \E th \in ReloadThreads : IncrementRead(th)
    \/ \E th \in ReloadThreads : IncrementResult(th)
    \/ \E th \in ReloadThreads : IncrementCompare(th)
    \/ \E th \in ReloadThreads : IncrementCopyKey(th)
    \/ \E th \in ReloadThreads : IncrementReset(th)
    \/ GuardedCall
    \/ CallBody

SpecSwapSteps == InitClasses /\ [][NextSwapSteps]_vars

\* An object that is constructed or loaded, and whose current_sha is assigned
\* to by its user, while artifacts of its class are saved.
NextSha ==
    \/ Tick
    \/ \E o \in Payloads : Save(ReloadClass, ReloadPrefix, o, TRUE)
    \/ \E o \in Payloads : Construct(o)
    \/ LoadObject
    \/ \E value \in ShaValues : SetCurrentSha(value)

SpecSha == InitClasses /\ [][NextSha]_vars

\* Saves and loads of a class whose load hook returns an instance of it and
\* of a class whose load hook does not.
NextHooks ==
    \/ Tick
    \/ \E cls \in HookClasses, prefix \in Prefixes, o \in Payloads, hookOk \in BOOLEAN :
          Save(cls, prefix, o, hookOk)
    \/ \E cls \in HookClasses, prefix \in Prefixes :
          \E skip_sha \in SkipShas(lastSave) : Load(cls, prefix, None, skip_sha)

SpecHooks == InitClasses /\ [][NextHooks]_vars

SpecHotSwap == InitClasses /\ [][NextHotSwap]_vars

\* Weak fairness of the loading thread.  LoadComplete(f) is enabled exactly
\* when the load is running, and taking it ends the load, so the condition
\* WF_vars(LoadComplete(f)) is that the load is not running for ever.
FairLoad(f) == []<>(futs[f].st # "running")

\* The scheduler keeps running the job, every thread that can take a step
\* takes it, and the caller keeps making guarded calls, also at moments when
\* no completed load is waiting to be swapped in.
FairReload ==
    /\ WF_vars(JobFire)
    /\ \A th \in ReloadThreads :
          /\ WF_vars(ReloadLaunch(th))
          /\ WF_vars(IncrementRead(th))
          /\ WF_vars(IncrementResult(th))
          /\ WF_vars(IncrementSwap(th))
    /\ \A f \in Slots : FairLoad(f)
    /\ SF_vars(GuardedCall /\ ~ _needs_increment(live, futs))
    /\ WF_vars(CallBody)

SpecHotSwapFair == InitClasses /\ [][NextHotSwap]_vars /\ FairReload

(***************************************************************************)
(* What the claims speak of, defined apart from the code's own search.     *)
(***************************************************************************)
NoDup(tbl) == \A i, j \in 1..Len(tbl) : tbl[i] = tbl[j] => i = j

\* Whether sub occurs in s.
contains(s, sub) == \E i \in 0..(Len(s) - Len(sub)) : SubSeq(s, i + 1, i + Len(sub)) = sub

\* The logical name and the version a composite key was made of.
LogicalName(key) ==
    LET parts == split(key, "_") IN join(<< "_" >>, SubSeq(parts, 1, Len(parts) - 1))

KeyVersion(key) ==
    LET parts == split(key, "_")
        last  == parts[Len(parts)]
    IN  SemVer(SubSeq(last, 2, Len(last)))

\* The timestamp an artifact was saved under.
ArtifactTimestamp(a) == SubSeq(path_tail(a), 1, TimestampWidth)

\* The stored artifacts of the class's logical name at the location (with a
\* specifier: those whose timestamp holds it).
Candidates(fs, cls, prefix, specifier) ==
    { a \in stored_at(fs, location(prefix)) :
        /\ LogicalName(fs[a].by) = LogicalName(cls.registered_name)
        /\ (IsNone(specifier) \/ contains(ArtifactTimestamp(a), Get(specifier))) }

\* The candidates whose version satisfies the class's constraint.
Satisfying(fs, cls, prefix, specifier) ==
    { a \in Candidates(fs, cls, prefix, specifier) :
        IsNone(cls._version_spec) \/ SpecMatch(Get(cls._version_spec), KeyVersion(fs[a].by)) }

Loaded == ~ IsNone(lastLoad)
LoadOk == Loaded /\ Get(lastLoad).res.exc = ""
PlainLoad == Loaded /\ IsNone(Get(lastLoad).specifier) /\ IsNone(Get(lastLoad).skip_sha)

(***************************************************************************)
(* C1: after any sequence of register and clear calls the table holds each *)
(* composite key at most once; registering a key that is present fails     *)
(* with a creation error and leaves the table unchanged; the same name     *)
(* with another version, or the same key after a clear, registers.         *)
(***************************************************************************)
C1_RegistryUnique ==
    /\ NoDup(table)
    /\ (regResult.op = "register" /\ regResult.present)
          => (regResult.exc = "VeloxCreationError" /\ regResult.unchanged)
    /\ (regResult.op = "register" /\ regResult.wellFormed /\ ~ regResult.present)
          => regResult.exc = ""
    /\ (regResult.op = "register" /\ regResult.wellFormed /\ regResult.afterClear)
          => regResult.exc = ""

(***************************************************************************)
(* C2: with two threads registering and clearing, the table never holds a  *)
(* key twice, and two registrations of one key do not both succeed.        *)
(***************************************************************************)
C2_RegistrySerialized ==
    /\ NoDup(table)
    /\ (~ IsNone(tres[1]) /\ ~ IsNone(tres[2])) => tres[1] # tres[2]

(***************************************************************************)
(* C3: a load by the class whose instance made the last save, from the     *)
(* location saved to and with no save in between, returns the payload      *)
(* that was saved.                                                         *)
(***************************************************************************)
C3_RoundTrip ==
    (/\ PlainLoad /\ LoadOk /\ ~ IsNone(lastSave)
     /\ Get(lastLoad).cls = Get(lastSave).cls)
        => Get(lastLoad).res.o = Some(Get(lastSave).o)

C5_MostRecentOfName ==
    (LoadOk /\ PlainLoad /\ IsNone(Get(lastLoad).cls._version_spec))
        => LET l    == Get(lastLoad)
               read == Get(l.res.read)
               cand == Candidates(files, l.cls, l.prefix, None)
           IN  /\ read \in cand
               /\ \A a \in cand : ~ StrLess(ArtifactTimestamp(read), ArtifactTimestamp(a))

(***************************************************************************)
(* C6: load fails with VeloxConstraintError whenever no stored artifact    *)
(* matches the logical name and specifier, or none of those that match     *)
(* has a version satisfying the class's constraint.                        *)
(***************************************************************************)
C6_NoMatchIsConstraintError ==
    (Loaded /\ Satisfying(files, Get(lastLoad).cls, Get(lastLoad).prefix,
                          Get(lastLoad).specifier) = {})
        => Get(lastLoad).res.exc = "VeloxConstraintError"

(***************************************************************************)
(* C7: after k saves, none failed, all by instances of one class to one    *)
(* location that was empty, the location holds exactly k artifacts.        *)
(***************************************************************************)
C7_SaveNeverOverwrites ==
    (nFailed = 0 /\ Cardinality(saveCls) = 1)
        => \A sc \in saveCls : Cardinality(stored_at(files, sc.loc)) = nSaves


(***************************************************************************)
(* What the reload claims speak of.                                        *)
(***************************************************************************)
\* A scheduled reload is active on the live object.
ScheduledActive == ~ IsNone(live["_job_pointer"])

\* What resolution selects at the polled location: whether it selects an
\* artifact, the address of the artifact and the hash of its name.
selected_artifact(lp) ==
    IF lp.exc # "" THEN [ok |-> FALSE, at |-> << >>, sha |-> None]
    ELSE [ok |-> TRUE, at |-> address(Get(lp.path)),
          sha |-> Some(sha(get_filename(Get(lp.path))))]

Selected == selected_artifact(loadpath(files, ReloadClass, ReloadPrefix, ReloadSpecifier))

\* The last save put, while the reload was scheduled, the artifact that
\* resolution now selects.
NewArtifactSaved ==
    /\ ~ IsNone(lastSave)
    /\ Get(lastSave).polled
    /\ LET sel == Selected IN sel.ok /\ sel.at = Get(lastSave).path

\* The last guarded call returned the selected artifact's content, and the
\* live object's hash is the selected artifact's.
Converged ==
    /\ ~ IsNone(observed.o)
    /\ LET sel == Selected
       IN  /\ sel.ok
           /\ sel.at \in DOMAIN files
           /\ observed.o = files[sel.at].data
           /\ live["_current_sha"] = sel.sha

\* The fields of an object that hold its payload.
PayloadFields(obj) ==
    DOMAIN obj \ {K_incr, K_repl, "_scheduler", "_job_pointer", "_current_sha"}

Swapped == ~ IsNone(lastSwap)
SwapDiffers ==
    Swapped /\ Get(lastSwap).before["_current_sha"] # Get(lastSwap).replacement["_current_sha"]

(***************************************************************************)
(* C8: while a scheduled reload is active, a new artifact saved to the     *)
(* polled location that resolution selects is eventually what a guarded    *)
(* call returns, with the live object's hash that of the artifact (unless  *)
(* the scheduled reload is cancelled).                                     *)
(***************************************************************************)
C8_HotSwapConverges ==
    (ScheduledActive /\ NewArtifactSaved) ~> (Converged \/ ~ ScheduledActive)

(***************************************************************************)
(* C9: after a swap step whose replacement's hash differs from the live    *)
(* object's, every payload field of the live object equals the             *)
(* replacement's, and so does the hash.                                    *)
(***************************************************************************)
C9_SwapCopiesPayload ==
    SwapDiffers
        => LET sw == Get(lastSwap)
           IN  /\ \A k \in PayloadFields(sw.replacement) :
                      sw.after[k] = sw.replacement[k]
               /\ sw.after["_current_sha"] = sw.replacement["_current_sha"]
               /\ live = sw.after

\* A swap step that replaced a payload by a different one.
C9_Witness ==
    /\ SwapDiffers
    /\ Get(lastSwap).before["_o"] # Get(lastSwap).replacement["_o"]
    /\ live["_o"] = Get(lastSwap).replacement["_o"]

(***************************************************************************)
(* C10: a swap step leaves the live object's scheduler and its job handle  *)
(* as they were, whatever the replacement holds in those fields.           *)
(***************************************************************************)
C10_SwapKeepsScheduler ==
    Swapped
        => LET sw == Get(lastSwap)
           IN  /\ sw.after["_scheduler"] = sw.before["_scheduler"]
               /\ sw.after["_job_pointer"] = sw.before["_job_pointer"]
               /\ live["_scheduler"] = sw.before["_scheduler"]
               /\ live["_job_pointer"] = sw.before["_job_pointer"]

\* A swap step that copied, with a replacement whose scheduler and job handle
\* both differ from the live object's.
C10_Witness ==
    /\ SwapDiffers
    /\ Get(lastSwap).replacement["_scheduler"] # Get(lastSwap).before["_scheduler"]
    /\ Get(lastSwap).replacement["_job_pointer"] # Get(lastSwap).before["_job_pointer"]

(***************************************************************************)
(* C11: when the replacement's hash equals the live object's current hash  *)
(* the swap step copies no field: the payload fields, the current hash,    *)
(* the scheduler and the job handle are as they were, and the pending      *)
(* reload is cleared.                                                      *)
(***************************************************************************)
SwapSame ==
    /\ Swapped
    /\ Get(lastSwap).before["_current_sha"] = Get(lastSwap).replacement["_current_sha"]

C11_SameHashCopiesNothing ==
    SwapSame =>
        LET sw == Get(lastSwap)
        IN  /\ \A k \in DOMAIN sw.before \ {K_incr, K_repl} : sw.after[k] = sw.before[k]
            /\ sw.after[K_incr] = FALSE
            /\ sw.after[K_repl] = None
            /\ live = sw.after

\* A swap with equal hashes whose replacement holds another payload, another
\* scheduler and no job handle, while a reload was pending on the live object.
C11_Witness ==
    /\ SwapSame
    /\ Get(lastSwap).replacement["_o"] # Get(lastSwap).before["_o"]
    /\ Get(lastSwap).replacement["_scheduler"] # Get(lastSwap).before["_scheduler"]
    /\ ~ IsNone(Get(lastSwap).before[K_repl])
    /\ live["_o"] = Get(lastSwap).before["_o"]

(***************************************************************************)
(* C12: a guarded call that finds the pending reload's future complete     *)
(* goes through the swap step before the method runs, and the method is    *)
(* entered with no completed reload left to swap in; a guarded call that   *)
(* finds no reload pending, or one not complete, goes to the method        *)
(* leaving the object as it is.                                            *)
(***************************************************************************)
GuardStep == rpc["caller"] = "idle" /\ rpc'["caller"] \in {"g_result", "body"}
BodyEntry == rpc["caller"] # "body" /\ rpc'["caller"] = "body"

C12_GuardOrdering ==
    [][ /\ (GuardStep /\ _needs_increment(live, futs)) => rpc'["caller"] = "g_result"
        /\ (GuardStep /\ ~ _needs_increment(live, futs)) =>
               (rpc'["caller"] = "body" /\ live' = live)
        /\ BodyEntry =>
               \/ /\ rpc["caller"] = "idle"
                  /\ ~ _needs_increment(live, futs)
                  /\ live' = live
               \/ /\ rpc["caller"] = "g_swap"
                  /\ live' = _increment(live, Get(Get(rloc["caller"].out).obj))
                  /\ ~ _needs_increment(live', futs')
      ]_vars

\* The method is about to run right after the swap its own call made, which
\* put another payload in place.
C12_Witness ==
    /\ rpc["caller"] = "body"
    /\ SwapDiffers
    /\ Get(lastSwap).by = "caller"
    /\ live["_o"] = Get(lastSwap).replacement["_o"]
    /\ live["_o"] # Get(lastSwap).before["_o"]

(***************************************************************************)
(* C13: at most one background load of the live object is in flight at any *)
(* time, whatever the interleaving of unscheduled reloads, runs of the     *)
(* scheduled job and guarded calls.                                        *)
(***************************************************************************)
InFlight == { f \in DOMAIN futs : futs[f].st = "running" }

C13_OneLoadInFlight == Cardinality(InFlight) <= 1

(***************************************************************************)
(* C14: no guarded method body, running while the scheduled job performs a *)
(* swap, finds the object with some fields of the old artifact and others  *)
(* of the replacement.                                                     *)
(***************************************************************************)
\* The fields an artifact consists of.
ArtifactFields(obj) == PayloadFields(obj) \cup {"_current_sha"}

\* Thread th is within the loop of a swap, and the object holds a field the
\* loop has changed next to a field it is still to change.
TornBy(th) ==
    /\ rpc[th] \in {"copy", "g_copy"}
    /\ LET replacement == Get(Get(rloc[th].out).obj)
           before      == Get(rloc[th].before)
       IN  \E k1, k2 \in ArtifactFields(replacement) :
               /\ k1 \notin rloc[th].todo
               /\ k2 \in rloc[th].todo
               /\ replacement[k1] # before[k1]
               /\ replacement[k2] # before[k2]
               /\ live[k1] = replacement[k1]
               /\ live[k2] = before[k2]

C14_SwapAtomic == ~ (rpc["caller"] = "body" /\ TornBy("job"))

(***************************************************************************)
(* C15: a reload, scheduled or not, whose load finds no matching candidate *)
(* is skipped: no error leaves reload or the scheduled job, and the        *)
(* payload and the current hash of the live object are as they were.       *)
(***************************************************************************)
\* The artifact the object holds: its payload fields and its hash.
Artifact(obj) == [k \in ArtifactFields(obj) |-> obj[k]]

\* Thread th, within a reload, gets the constraint error of its load from
\* result(), and the reload ends.
SkipStep(th) ==
    /\ rpc[th] = "wait"
    /\ ~ IsNone(rloc[th].out)
    /\ Get(rloc[th].out).exc = "VeloxConstraintError"
    /\ rpc'[th] = "idle"

\* Thread th takes a step of a reload that is not the swap.
ReloadStepBeforeSwap(th) ==
    /\ rpc[th] \in {"idle", "launch", "result", "wait"}
    /\ rpc'[th] \in {"launch", "result", "wait", "swap", "idle"}
    /\ rpc'[th] # rpc[th]

C15_NoCandidateSkipped ==
    [][ \A th \in ReloadThreads :
           /\ SkipStep(th) => escaped'[th] = ""
           /\ ReloadStepBeforeSwap(th) => Artifact(live') = Artifact(live)
      ]_vars

\* Both threads are back from their reloads with no error, the live object
\* still refers to the future that holds the constraint error, and it holds
\* the artifact it was constructed with.
C15_Witness ==
    /\ \A th \in ReloadThreads : rpc[th] = "idle" /\ escaped[th] = ""
    /\ ~ IsNone(live[K_repl])
    /\ futs[Get(live[K_repl])].st = "done"
    /\ futs[Get(live[K_repl])].exc = "VeloxConstraintError"
    /\ Artifact(live) = Artifact(new_object("empty", LiveScheduler))

(***************************************************************************)
(* C16: after a reload that was skipped because no candidate matched, no   *)
(* guarded call on the object raises the constraint error of that reload:  *)
(* the method runs on the unchanged object.                                *)
(***************************************************************************)
\* No reload is under way, and the last load ended with the constraint error:
\* the reload that waited for it was skipped.
AfterSkip ==
    /\ \A th \in ReloadThreads : rpc[th] = "idle"
    /\ ~ IsNone(live[K_repl])
    /\ futs[Get(live[K_repl])].st = "done"
    /\ futs[Get(live[K_repl])].exc = "VeloxConstraintError"

\* A guarded call made then goes to its method, leaving the object as it is,
\* and not into the swap step, where result() raises the load's error.
C16_CallAfterSkipRuns ==
    [][ (AfterSkip /\ GuardStep) => (rpc'["caller"] = "body" /\ live' = live) ]_vars

(***************************************************************************)
(* C17: callers never block on the refresh: the caller of an unscheduled   *)
(* reload is never left waiting for the background load the reload started *)
(* to complete.                                                            *)
(***************************************************************************)
\* The caller is inside reload, in result(), on a future whose load is
\* still running.
CallerBlocked ==
    /\ rpc["caller"] = "wait"
    /\ ~ IsNone(rloc["caller"].fut)
    /\ futs[Get(rloc["caller"].fut)].st = "running"

C17_ReloadDoesNotBlock == ~ CallerBlocked

(***************************************************************************)
(* C18: the scheduler of an object never holds more than one recurring     *)
(* reload job: a scheduled reload asked for while a job handle is held     *)
(* fails with ValueError and leaves the job and the handle in place; when  *)
(* no handle is held (at first, or after a cancel) it registers a job.     *)
(***************************************************************************)
HandleHeld == ~ IsNone(live["_job_pointer"])

C18_OneRecurringJob ==
    [][ /\ Cardinality(sched'.jobs) <= 1
        /\ (ReloadScheduled /\ HandleHeld) =>
               /\ escaped'["caller"] = "ValueError"
               /\ sched'.jobs = sched.jobs
               /\ live' = live
        /\ (ReloadScheduled /\ ~ HandleHeld) =>
               /\ escaped'["caller"] = ""
               /\ ~ IsNone(live'["_job_pointer"])
               /\ sched'.jobs = {Get(live'["_job_pointer"])}
               /\ sched'.running
      ]_vars

\* A scheduled reload has just failed on an object that holds its one job.
C18_Witness ==
    /\ escaped["caller"] = "ValueError"
    /\ HandleHeld
    /\ sched.jobs = {Get(live["_job_pointer"])}

(***************************************************************************)
(* C19: cancel_scheduled_reload fails with ValueError and changes nothing  *)
(* when no recurring job is active; when one is active it removes the job  *)
(* and clears the handle, and leaves a reload in flight (the run of the    *)
(* job under way, the loading thread and its future) as it is.             *)
(***************************************************************************)
C19_Cancel ==
    [][ /\ (CancelScheduledReload /\ ~ HandleHeld) =>
               /\ escaped'["caller"] = "ValueError"
               /\ UNCHANGED << live, sched, futs, rpc, rloc >>
        /\ (CancelScheduledReload /\ HandleHeld) =>
               /\ escaped'["caller"] = ""
               /\ sched'.jobs = {}
               /\ live' = [live EXCEPT !["_job_pointer"] = None]
               /\ UNCHANGED << futs, rpc, rloc >>
      ]_vars

\* The handle has been cleared and the job removed while the run of the job
\* that was under way still waits for its load, which is still running.
C19_Witness ==
    /\ ~ HandleHeld
    /\ sched.running
    /\ sched.jobs = {}
    /\ escaped["caller"] = ""
    /\ rpc["caller"] = "idle"
    /\ rpc["job"] = "wait"
    /\ ~ IsNone(rloc["job"].fut)
    /\ futs[Get(rloc["job"].fut)].st = "running"
    /\ live[K_repl] = rloc["job"].fut

(***************************************************************************)
(* C20: the current hash of a freshly constructed object is None; load     *)
(* sets it, once, on the object it returns; an assignment through the      *)
(* public setter while the hash is not None fails with ValueError and      *)
(* leaves the hash as it is.                                               *)
(***************************************************************************)
C20_HashSetOnce ==
    [][ /\ \A o \in Payloads : Construct(o) => IsNone(live'["_current_sha"])
        /\ (LoadObject /\ escaped'["caller"] = "") =>
               /\ ~ IsNone(live'["_current_sha"])
               /\ live'["_current_sha"] = Selected.sha
        /\ \A value \in ShaValues :
               (SetCurrentSha(value) /\ ~ IsNone(live["_current_sha"])) =>
                   /\ escaped'["caller"] = "ValueError"
                   /\ live' = live
      ]_vars

\* An assignment of another hash to the current_sha of a loaded object has
\* just failed.
C20_Witness ==
    /\ escaped["caller"] = "ValueError"
    /\ LET sel == Selected
       IN  /\ sel.ok
           /\ live["_current_sha"] = sel.sha
    /\ live["_current_sha"] \notin ShaValues

(***************************************************************************)
(* C21: a load by a class whose load hook returns something that is not a  *)
(* managed object returns no object, and whenever the hook was called the  *)
(* load fails with TypeError.                                              *)
(***************************************************************************)
\* The last load got as far as calling the hook: a file was resolved, it was
\* not the one to skip, and it could be opened.
HookCalled ==
    /\ Loaded
    /\ LET l  == Get(lastLoad)
           lp == loadpath(files, l.cls, l.prefix, l.specifier)
       IN  /\ lp.exc = ""
           /\ address(Get(lp.path)) \in DOMAIN files
           /\ l.skip_sha # Some(sha(get_filename(Get(lp.path))))

C21_BadHookIsTypeError ==
    (Loaded /\ Get(lastLoad).cls.hook # "object") =>
        /\ Get(lastLoad).res.exc # ""
        /\ IsNone(Get(lastLoad).res.o)
        /\ HookCalled => Get(lastLoad).res.exc = "TypeError"

C21_Witness ==
    /\ Loaded
    /\ Get(lastLoad).cls = InconsistentTypedModel
    /\ Get(lastLoad).res.exc = "TypeError"
    /\ HookCalled

\* ------------------------------------------------------------------------
\* Classes and construction (obj.py `VeloxObject.__init__`,
\* `register_model.__call__`).  A class is its base (None for a direct
\* subclass of VeloxObject) and whether the decorator was applied to it.
\* ------------------------------------------------------------------------

ClassIds == 1 .. MaxClasses

RECURSIVE hasattr_registered_spec(_, _)
\* hasattr(., '_registered_spec'): the attribute the decorator sets on a
\* class is found on the class or on any class it derives from.
hasattr_registered_spec(cs, i) ==
    \/ cs[i].decorated
    \/ /\ ~IsNone(cs[i].base)
       /\ hasattr_registered_spec(cs, Get(cs[i].base))

\* VeloxObject.__init__: how construction of an instance of class i ends.
VeloxObject_init(cs, i) ==
    IF ~hasattr_registered_spec(cs, i) THEN "VeloxCreationError" ELSE ""

\* `class X(base)`: a new class deriving from VeloxObject or from a class
\* already defined.
DefineClass(base) ==
    /\ Len(classes) < MaxClasses
    /\ classes' = Append(classes, [base |-> base, decorated |-> FALSE])
    /\ made' = None
    /\ UNCHANGED << regVars, concVars, liteVars, storeVars, liveVars >>

\* register_model(...)(cls): refused when the class already carries the
\* registered name (its own or an inherited one), else marks the class.
Decorate(i) ==
    /\ i \in DOMAIN classes
    /\ LET exc == register_call(IF hasattr_registered_spec(classes, i)
                                THEN "registered" ELSE "fresh")
       IN  classes' = IF exc = "" THEN [classes EXCEPT ![i].decorated = TRUE]
                      ELSE classes
    /\ made' = None
    /\ UNCHANGED << regVars, concVars, liteVars, storeVars, liveVars >>

\* cls(): VeloxObject.__init__ runs on the new instance.
Instantiate(i) ==
    /\ i \in DOMAIN classes
    /\ made' = Some([cls |-> i, exc |-> VeloxObject_init(classes, i)])
    /\ UNCHANGED << classes, regVars, concVars, liteVars, storeVars, liveVars >>

NextCreate ==
    \/ \E base \in {None} \cup {Some(b) : b \in DOMAIN classes} : DefineClass(base)
    \/ \E i \in ClassIds : Decorate(i)
    \/ \E i \in ClassIds : Instantiate(i)

SpecCreate == InitClasses /\ [][NextCreate]_vars

\* C22: constructing an instance of a class the decorator was never applied
\* to ends in VeloxCreationError.
C22_UnregisteredNeverConstructs ==
    (~IsNone(made) /\ ~classes[Get(made).cls].decorated)
        => Get(made).exc = "VeloxCreationError"

(***************************************************************************)
(* velox/lite.py: save_object and load_object.                             *)
(***************************************************************************)
DEFAULT_SECRET == << "v", "e", "l", "o", "x" >>

Str_k == << "k" >>
Str_s3_b_pq == Str_s3_b_p \o << "q" >>

AlnumChars ==
    Digits \cup {"a", "b", "c", "d", "e", "f", "g", "h", "i", "j", "k", "l", "m",
                 "n", "o", "p", "q", "r", "s", "t", "u", "v", "w", "x", "y", "z"}

\* str.isalnum(): at least one character, and every character a letter or a digit.
isalnum(s) == s # << >> /\ \A i \in 1..Len(s) : s[i] \in AlnumChars

RECURSIVE str_int(_)
\* str(n) of a natural number.
str_int(n) == IF n < 10 THEN << DigitChar(n) >>
              ELSE str_int(n \div 10) \o << DigitChar(n % 10) >>

\* dill.dump and dill.load: the pickle of a value, and the value of a pickle.
dill_dump(x) == [pickle |-> x]
dill_load(b) == b.pickle

\* The payloads: a dict, and an instance of FooBar, which has its own _save
\* and _load.
Str_FooBar == << "F", "o", "o", "B", "a", "r" >>
Str_dict == << "d", "i", "c", "t" >>
Str_utils == << "u", "t", "i", "l", "s" >>
DictObj(x) == [module |-> << >>, type |-> Str_dict, value |-> x]
FooBar(foo) == [module |-> Str_utils, type |-> Str_FooBar, foo |-> foo]
LiteObjects == {DictObj("bar"), FooBar("baz")}

\* hasattr(obj, '_save')
has_save(obj) == obj.type = Str_FooBar

\* FooBar._save(fobj) and FooBar._load(fobj)
FooBar_save(obj) == dill_dump(obj.foo)
FooBar_load(b) == FooBar(dill_load(b))

\* tools.fullname(obj): the qualified name of the object's class.
fullname(obj) == obj.module \o << "." >> \o obj.type

\* tools.import_from_qualified_name(classname)._load: the load hook of the
\* class of that name.
import_from_qualified_name_load(classname, b) ==
    IF classname = Str_utils \o << "." >> \o Str_FooBar
    THEN [exc |-> "", obj |-> Some(FooBar_load(b))]
    ELSE [exc |-> "ImportError", obj |-> None]

Str_dill == << "d", "i", "l", "l" >>

\* _get_serialization_hook(obj): the bytes the hook writes, and the class tag.
_get_serialization_hook(obj) ==
    IF has_save(obj)
    THEN [data |-> FooBar_save(obj), class |-> fullname(obj)]
    ELSE [data |-> dill_dump(obj), class |-> Str_dill]

\* _get_deserialization_hook(classname) applied to the bytes.
_get_deserialization_hook(classname, b) ==
    IF classname = Str_dill
    THEN [exc |-> "", obj |-> Some(dill_load(b))]
    ELSE import_from_qualified_name_load(classname, b)

\* `secret or DEFAULT_SECRET`: None and the empty string are both falsy.
signing_key(secret) ==
    IF IsNone(secret) \/ Get(secret) = << >> THEN DEFAULT_SECRET ELSE Get(secret)

\* itsdangerous.Serializer(key).dump(data): the signed envelope.
serializer_dump(key, data) == [signed |-> key, payload |-> data]

\* itsdangerous.Serializer(key).load: BadSignature unless the envelope was
\* signed with the same key.
serializer_load(key, envelope) ==
    IF envelope.signed = key
    THEN [exc |-> "", data |-> Some(envelope.payload)]
    ELSE [exc |-> "BadSignature", data |-> None]

\* get_aware_filepath(path, 'rb') up to the body: the exception raised before
\* the body runs, the content the body reads, and whether a temporary file
\* was made (mkstemp, for a path on S3).
aware_read(fs, path) ==
    IF ~ is_s3_path(path)
    THEN IF address(path) \in DOMAIN fs
         THEN [exc |-> "", f |-> Some(fs[address(path)]), temp |-> FALSE]
         ELSE [exc |-> "IOError", f |-> None, temp |-> FALSE]
    ELSE IF address(path) \in DOMAIN fs
         THEN [exc |-> "", f |-> Some(fs[address(path)]), temp |-> TRUE]
         ELSE [exc |-> "ClientError", f |-> None, temp |-> TRUE]

\* get_aware_filepath after the yield: os.remove(temp_fp) is reached only
\* when nothing was raised before it.  The number of temporary files left.
aware_exit(temp, exc) == IF temp /\ exc # "" THEN 1 ELSE 0

\* get_aware_filepath(path, 'wb') around a body that writes `content`.
aware_write(fs, path, content) ==
    [a \in DOMAIN fs \cup {address(path)} |->
        IF a = address(path) THEN content ELSE fs[a]]

\* save_object(obj, name, prefix, versioned, secret): the exception raised,
\* the store afterwards and the filename written.
save_object(fs, obj, name, prefix, versioned, secret) ==
    IF ~ isalnum(name)
    THEN [exc |-> "ValueError", files |-> fs, filename |-> None]
    ELSE LET hook == _get_serialization_hook(obj)
             matching_files ==
                 find_matching_files(fs, prefix,
                     IF versioned THEN name \o << "-", "*" >> ELSE name)
             version == Len(matching_files) + 1
             filename ==
                 IF versioned
                 THEN stitch_filename(prefix, name \o << "-", "v" >> \o str_int(version))
                 ELSE stitch_filename(prefix, name)
         IN  IF ~ versioned /\ matching_files # << >>
             THEN [exc |-> "IOError", files |-> fs, filename |-> Some(filename)]
             ELSE [exc |-> "",
                   files |-> aware_write(fs, filename,
                                 serializer_dump(signing_key(secret), hook)),
                   filename |-> Some(filename)]

\* The hook the class tag of `data` names, run on its bytes: the exception,
\* the object, and the tag the hook was looked up by.
run_hook(data) ==
    LET res == _get_deserialization_hook(data.class, data.data)
    IN  [exc |-> res.exc, obj |-> res.obj, hook |-> Some(data.class)]

\* A body that takes the class tag and the bytes from the envelope as they
\* are, whatever the signature.
load_body_unverified(key, envelope) == run_hook(envelope.payload)

\* The body of the `with` in load_object: verify the envelope, then hand its
\* bytes to the hook its class tag names.
load_body(key, envelope) ==
    LET data == serializer_load(key, envelope)
    IN  IF data.exc = "BadSignature"
        THEN [exc |-> "RuntimeError", obj |-> None, hook |-> None]
        ELSE run_hook(Get(data.data))

\* load_object(name, prefix, versioned, secret): the exception raised, the
\* object returned, the filename resolved and the temporary files left.
load_object_lite(fs, name, prefix, versioned, secret) ==
    IF ~ isalnum(name)
    THEN [exc |-> "ValueError", obj |-> None, filename |-> None, left |-> 0,
          hook |-> None]
    ELSE LET matching_files ==
                 find_matching_files(fs, prefix,
                     IF versioned THEN name \o << "-", "*" >> ELSE name)
         IN  IF matching_files = << >>
             THEN [exc |-> "VeloxConstraintError", obj |-> None,
                   filename |-> None, left |-> 0, hook |-> None]
             ELSE LET filename ==
                          stitch_filename(prefix,
                              IF versioned THEN matching_files[1] ELSE name)
                      opened == aware_read(fs, filename)
                      body == IF opened.exc # ""
                              THEN [exc |-> opened.exc, obj |-> None, hook |-> None]
                              ELSE load_body(signing_key(secret), Get(opened.f))
                  IN  [exc |-> body.exc, obj |-> body.obj, hook |-> body.hook,
                       filename |-> Some(filename),
                       left |-> aware_exit(opened.temp, body.exc)]

LiteNames    == {Str_m, Str_s_m}
LitePrefixes == {Str_abs_d, Str_s3_b_p, Str_s3_b_pq}
LiteSecrets  == {None, Some(DEFAULT_SECRET), Some(Str_k)}

\* The payload and the secret of the call before this one, when that call was
\* a save_object that returned and had this name, location and mode; else None.
just_saved(last, name, prefix, versioned) ==
    IF /\ ~ IsNone(last)
       /\ Get(last).op = "save"
       /\ Get(last).exc = ""
       /\ Get(last).name = name
       /\ Get(last).prefix = prefix
       /\ Get(last).versioned = versioned
    THEN Some([obj |-> Get(Get(last).obj), secret |-> Get(last).secret])
    ELSE None

\* One call of save_object.
LiteSave(obj, name, prefix, versioned, secret) ==
    LET res == save_object(files, obj, name, prefix, versioned, secret)
    IN  /\ Cardinality(DOMAIN res.files) <= MaxStored
        /\ files' = res.files
        /\ lastLite' = Some([op |-> "save", obj |-> Some(obj), name |-> name,
                             prefix |-> prefix, versioned |-> versioned,
                             secret |-> secret, exc |-> res.exc, out |-> None,
                             filename |-> res.filename, before |-> files,
                             left |-> 0, saved |-> None, hook |-> None])
        /\ UNCHANGED << regVars, concVars, classVars, temps, now, nSaves,
                        nFailed, saveCls, lastSave, lastLoad, liveVars >>

\* One call of load_object.
LiteLoad(name, prefix, versioned, secret) ==
    LET res == load_object_lite(files, name, prefix, versioned, secret)
    IN  /\ temps + res.left <= MaxTemps
        /\ temps' = temps + res.left
        /\ lastLite' = Some([op |-> "load", obj |-> None, name |-> name,
                             prefix |-> prefix, versioned |-> versioned,
                             secret |-> secret, exc |-> res.exc, out |-> res.obj,
                             filename |-> res.filename, before |-> files,
                             left |-> res.left, hook |-> res.hook,
                             saved |-> just_saved(lastLite, name, prefix,
                                                  versioned)])
        /\ UNCHANGED << regVars, concVars, classVars, storeVars, liveVars >>

\* Saves and loads of one name at a local and a remote location, with every
\* pairing of secrets.
NextLite ==
    \/ \E obj \in LiteObjects, prefix \in {Str_abs_d, Str_s3_b_p},
          versioned \in BOOLEAN, secret \in LiteSecrets :
         LiteSave(obj, Str_m, prefix, versioned, secret)
    \/ \E prefix \in {Str_abs_d, Str_s3_b_p},
          versioned \in BOOLEAN, secret \in LiteSecrets :
         LiteLoad(Str_m, prefix, versioned, secret)

SpecLite == InitClasses /\ [][NextLite]_vars

\* Saves and loads of valid and invalid names at every location, without a
\* secret.
NextLiteNames ==
    \/ \E obj \in LiteObjects, name \in LiteNames, prefix \in LitePrefixes,
          versioned \in BOOLEAN :
         LiteSave(obj, name, prefix, versioned, None)
    \/ \E name \in LiteNames, prefix \in LitePrefixes, versioned \in BOOLEAN :
         LiteLoad(name, prefix, versioned, None)

SpecLiteNames == InitClasses /\ [][NextLiteNames]_vars

LiteSaved == ~ IsNone(lastLite) /\ Get(lastLite).op = "save"
LiteLoaded == ~ IsNone(lastLite) /\ Get(lastLite).op = "load"

\* C23: a load_object with the name, location, mode and secret of the
\* save_object just before it succeeds and returns the payload saved.
C23_LiteRoundTrip ==
    (/\ LiteLoaded
     /\ ~ IsNone(Get(lastLite).saved)
     /\ Get(Get(lastLite).saved).secret = Get(lastLite).secret)
        => /\ Get(lastLite).exc = ""
           /\ Get(lastLite).out = Some(Get(Get(lastLite).saved).obj)

\* The address an unversioned save of `name` at `prefix` writes.
unversioned_address(prefix, name) == address(stitch_filename(prefix, name))

\* C24: an unversioned save_object of a name not yet stored at the location
\* succeeds and stores the payload; one of a name already stored there raises
\* IOError and leaves the store as it was.
C24_UnversionedSaveOnce ==
    (LiteSaved /\ ~ Get(lastLite).versioned /\ isalnum(Get(lastLite).name)) =>
        LET l == Get(lastLite)
            a == unversioned_address(l.prefix, l.name)
        IN  IF a \in DOMAIN l.before
            THEN l.exc = "IOError" /\ files = l.before
            ELSE /\ l.exc = ""
                 /\ a \in DOMAIN files
                 /\ files[a] = serializer_dump(signing_key(l.secret),
                                   _get_serialization_hook(Get(l.obj)))

\* The versioned objects of `name` stored at the location of `prefix`.
versions_at(fs, prefix, name) ==
    { a \in stored_at(fs, location(prefix)) :
        fnmatch(path_tail(a), name \o << "-", "*" >>) }

\* The address of version n of `name` at `prefix`.
version_address(prefix, name, n) ==
    address(stitch_filename(prefix, name \o << "-", "v" >> \o str_int(n)))

\* C25: the j-th versioned save_object of a name at a location writes a new
\* object with suffix j and leaves every earlier object as it was.
C25_VersionedSuffixes ==
    (LiteSaved /\ Get(lastLite).versioned /\ isalnum(Get(lastLite).name)) =>
        LET l == Get(lastLite)
            j == Cardinality(versions_at(l.before, l.prefix, l.name)) + 1
            a == version_address(l.prefix, l.name, j)
        IN  /\ l.exc = ""
            /\ a \notin DOMAIN l.before
            /\ DOMAIN files = DOMAIN l.before \cup {a}
            /\ \A b \in DOMAIN l.before : files[b] = l.before[b]

\* The integer suffix of a versioned object of `name`.
version_suffix(a, name) ==
    ParseNat(SubSeq(path_tail(a), Len(name) + 3, Len(path_tail(a))))

\* The versioned object of `name` at `prefix` with the highest suffix.
latest_version(fs, prefix, name) ==
    CHOOSE a \in versions_at(fs, prefix, name) :
        \A b \in versions_at(fs, prefix, name) :
            version_suffix(b, name) <= version_suffix(a, name)

\* The payload a stored object holds.
stored_payload(envelope) ==
    _get_deserialization_hook(envelope.payload.class, envelope.payload.data).obj

\* A versioned load of a name with versions stored at the location, made with
\* the secret of the latest of them.
VersionedLoadOfStored ==
    /\ LiteLoaded
    /\ Get(lastLite).versioned
    /\ versions_at(files, Get(lastLite).prefix, Get(lastLite).name) # {}
    /\ files[latest_version(files, Get(lastLite).prefix, Get(lastLite).name)].signed
         = signing_key(Get(lastLite).secret)

\* C26: a versioned load_object returns the payload of the stored version
\* with the highest suffix.
C26_LoadsLatestVersion ==
    VersionedLoadOfStored =>
        /\ Get(lastLite).exc = ""
        /\ Get(lastLite).out =
             stored_payload(files[latest_version(files, Get(lastLite).prefix,
                                                 Get(lastLite).name)])

\* Nothing was saved under `name` at `prefix` in the mode asked for.
never_saved(fs, prefix, name, versioned) ==
    IF versioned THEN versions_at(fs, prefix, name) = {}
    ELSE unversioned_address(prefix, name) \notin DOMAIN fs

\* C27: a load_object of a valid name never saved at the location in the
\* mode asked for raises VeloxConstraintError.
C27_NotSavedIsConstraintError ==
    (/\ LiteLoaded
     /\ isalnum(Get(lastLite).name)
     /\ never_saved(files, Get(lastLite).prefix, Get(lastLite).name,
                    Get(lastLite).versioned))
        => Get(lastLite).exc = "VeloxConstraintError"

\* C28: a load_object made with a secret other than the one of the
\* save_object just before it (an absent secret standing for the default
\* one) raises RuntimeError and returns nothing.
C28_OtherSecretIsRuntimeError ==
    (/\ LiteLoaded
     /\ ~ IsNone(Get(lastLite).saved)
     /\ signing_key(Get(Get(lastLite).saved).secret)
          # signing_key(Get(lastLite).secret))
        => /\ Get(lastLite).exc = "RuntimeError"
           /\ IsNone(Get(lastLite).out)

\* C29: no temporary file made by a scoped read or write on a remote
\* location remains once the call that opened it has ended.
C29_NoTempFileLeft == temps = 0

\* The stored artifacts a constrained load may choose from that carry the
\* highest satisfying version.
HighestSatisfying(fs, cls, prefix, specifier) ==
    { a \in Satisfying(fs, cls, prefix, specifier) :
        \A b \in Satisfying(fs, cls, prefix, specifier) :
            ~ SemVerLess(KeyVersion(fs[a].by), KeyVersion(fs[b].by)) }

\* C30: a load by a class with a version constraint reads, among the stored
\* artifacts that carry the highest satisfying version, the one with the
\* greatest timestamp.
C30_LatestOfHighestVersion ==
    (LoadOk /\ ~ IsNone(Get(lastLoad).cls._version_spec))
        => LET l    == Get(lastLoad)
               read == Get(l.res.read)
               top  == HighestSatisfying(files, l.cls, l.prefix, l.specifier)
           IN  /\ read \in top
               /\ \A a \in top :
                    ~ StrLess(ArtifactTimestamp(read), ArtifactTimestamp(a))

\* A constrained load that chose between two stored artifacts of the highest
\* satisfying version.
C30_Witness ==
    /\ LoadOk
    /\ ~ IsNone(Get(lastLoad).cls._version_spec)
    /\ LET l == Get(lastLoad)
       IN  \E a \in HighestSatisfying(files, l.cls, l.prefix, l.specifier) :
              StrLess(ArtifactTimestamp(a), ArtifactTimestamp(Get(l.res.read)))

(***************************************************************************)
(* C31: the loop of the swap step copies neither the replacement's         *)
(* reload-in-progress flag nor its pending-reload slot: the keys it is to  *)
(* copy never include the two bookkeeping attributes.                      *)
(***************************************************************************)
BookkeepingKeys == {K_incr, K_repl}

C31_BookkeepingNotCopied ==
    \A th \in ReloadThreads : rloc[th].todo \cap BookkeepingKeys = {}

(***************************************************************************)
(* C32: load_object looks up and runs a deserialization hook only for an   *)
(* envelope whose signature it has verified; a load that meets another     *)
(* signature raises RuntimeError with no hook looked up and nothing        *)
(* returned.                                                               *)
(***************************************************************************)
\* The last call was a load_object that opened a stored envelope.
OpenedEnvelope ==
    /\ LiteLoaded
    /\ ~ IsNone(Get(lastLite).filename)
    /\ address(Get(Get(lastLite).filename)) \in DOMAIN files

\* The envelope opened carries the signature of the secret passed.
SignatureVerifies ==
    files[address(Get(Get(lastLite).filename))].signed
        = signing_key(Get(lastLite).secret)

C32_HookAfterVerification ==
    LiteLoaded =>
        /\ ~ IsNone(Get(lastLite).hook) => (OpenedEnvelope /\ SignatureVerifies)
        /\ (OpenedEnvelope /\ ~ SignatureVerifies) =>
              /\ Get(lastLite).exc = "RuntimeError"
              /\ IsNone(Get(lastLite).hook)
              /\ IsNone(Get(lastLite).out)

\* A load that opened an envelope signed with another secret.
C32_Witness ==
    /\ OpenedEnvelope
    /\ ~ SignatureVerifies
    /\ Get(lastLite).exc = "RuntimeError"

(***************************************************************************)
(* C33: at a local and at a remote location alike, stitching the location  *)
(* onto a name that the listing of the location returns gives the address  *)
(* of a stored object.                                                     *)
(***************************************************************************)
\* The addresses that the entries of the listing of `prefix` resolve to.
resolved_addresses(fs, prefix) ==
    LET filelist == find_matching_files(fs, prefix, << "*" >>)
    IN  { address(stitch_filename(prefix, filelist[i])) : i \in 1..Len(filelist) }

C33_ListingResolvesToStored ==
    \A prefix \in {Str_abs_d, Str_s3_b_p} :
        resolved_addresses(files, prefix) \subseteq DOMAIN files

(***************************************************************************)
(* C34: decoding the name of the file a save wrote gives back the          *)
(* timestamp of the save and the logical name and the version of the       *)
(* class that saved.                                                       *)
(***************************************************************************)
\* get_specifier(filepath) and get_registration_name(filepath)
get_specifier(filepath) == _get_naming_info(filepath)[1]
get_registration_name(filepath) == _get_naming_info(filepath)[2]

C34_FilenameRoundTrip ==
    ~ IsNone(lastSave) =>
        LET s == Get(lastSave)
        IN  /\ get_specifier(s.path) = timestamp(s.t)
            /\ get_registration_name(s.path) = LogicalName(s.cls.registered_name)
            /\ get_semver(s.path) = Some(class_version(s.cls))

(***************************************************************************)
(* C35: a registration that ends in an error leaves the registration       *)
(* table as it was.                                                        *)
(***************************************************************************)
C35_FailedRegistrationKeepsTable ==
    (regResult.op = "register" /\ regResult.exc # "") => regResult.unchanged

(***************************************************************************)
(* C36: a save whose hook raises leaves nothing at the location that a     *)
(* listing or a load can resolve: every stored artifact was written by a   *)
(* save that returned.                                                     *)
(***************************************************************************)
C36_FailedSaveLeavesNothing ==
    \A a \in DOMAIN files : ~ IsNone(files[a].data)

(***************************************************************************)
(* C37: a swap step runs only while the live object holds a pending        *)
(* reload, so a completed load that one swap step has consumed is not      *)
(* swapped in again by another thread.                                     *)
(***************************************************************************)
C37_SwapOnlyWithPendingReload ==
    ~ IsNone(lastSwap) => ~ IsNone(Get(lastSwap).before[K_repl])

(***************************************************************************)
(* C38: a reload whose background load fails, whatever the reason, leaves  *)
(* the live object's payload fields, current hash, scheduler and job       *)
(* handle as they were: neither the loading thread that ends with the      *)
(* exception nor the thread that gets it from result() changes them.       *)
(***************************************************************************)
\* Reloads of the live object while other instances of its class save to the
\* location it polls, some of them with a save hook that raises.
NextReloadFail ==
    \/ \E o \in Payloads, hookOk \in BOOLEAN : Save(ReloadClass, ReloadPrefix, o, hookOk)
    \/ ReloadScheduled
    \/ ReloadUnscheduled
    \/ JobFire
    \/ \E th \in ReloadThreads : ReloadLaunch(th)
    \/ \E f \in DOMAIN futs : LoadComplete(f)
    \/ \E th \in ReloadThreads : IncrementRead(th)
    \/ \E th \in ReloadThreads : IncrementResult(th)
    \/ \E th \in ReloadThreads : IncrementSwap(th)
    \/ GuardedCall
    \/ CallBody

SpecReloadFail == InitLoads /\ [][NextReloadFail]_vars

\* What a failed load is to leave alone.
Kept(obj) == [k \in ArtifactFields(obj) \cup {"_scheduler", "_job_pointer"} |-> obj[k]]

\* The loading thread of future f ends with an exception.
LoadFails(f) ==
    /\ futs[f].st = "running"
    /\ futs'[f].st # "running"
    /\ load(files, ReloadClass, ReloadPrefix, ReloadSpecifier, None).exc # ""

\* Thread th gets the exception of the load from result(), in a reload or in
\* a guarded call, and is done with its swap step.
FailureTaken(th) ==
    /\ rpc[th] \in {"wait", "g_wait"}
    /\ ~ IsNone(rloc[th].out)
    /\ Get(rloc[th].out).exc # ""
    /\ rpc'[th] # rpc[th]

C38_FailedLoadKeepsObject ==
    [][ ((\E f \in DOMAIN futs : LoadFails(f)) \/ (\E th \in ReloadThreads : FailureTaken(th)))
            => Kept(live') = Kept(live)
      ]_vars

\* A reload has let the error of the load hook escape, the live object has a
\* job scheduled, and it holds the payload and the hash it was built with.
C38_Witness ==
    /\ \E th \in ReloadThreads : rpc[th] = "idle" /\ escaped[th] = "EOFError"
    /\ ~ IsNone(live["_job_pointer"])
    /\ Artifact(live) = Artifact(new_object("empty", LiveScheduler))

(***************************************************************************)
(* C39: the reload bookkeeping is consistent: the reload-in-progress flag  *)
(* is true only while a pending reload exists whose load is running or has *)
(* completed with an object that awaits its swap, and once every reload    *)
(* attempt has ended (swapped, skipped on equal hash, skipped on no match) *)
(* the flag is false and no reload is pending.                             *)
(***************************************************************************)
\* The load of the pending reload is running, or has returned an object.
PendingUsable ==
    /\ ~ IsNone(live[K_repl])
    /\ \/ futs[Get(live[K_repl])].st = "running"
       \/ futs[Get(live[K_repl])].st = "done" /\ futs[Get(live[K_repl])].exc = ""

\* No thread is inside a reload or a guarded call, and no load is running.
AttemptsEnded ==
    /\ \A th \in ReloadThreads : rpc[th] = "idle"
    /\ InFlight = {}

C39_BookkeepingConsistent ==
    /\ (\A th \in ReloadThreads : rpc[th] = "idle") =>
           (live[K_incr] => PendingUsable)
    /\ AttemptsEnded => (~ live[K_incr] /\ IsNone(live[K_repl]))

====
